---- MODULE Spec2Model ----
(***************************************************************************)
(* A model of the FinOps dashboard core: the formatting helpers            *)
(* (utils/helpers.py), the period calculator (core/data_fetcher.py), the   *)
(* metric card (ui/metric_card.py), the chart renderer                     *)
(* (ui/chart_renderer.py), the metric and chart section loops              *)
(* (modules/dashboard_sections.py), the recommendations                    *)
(* (insights/recommendations.py) and the date range selector               *)
(* (ui/base_components.py).                                                *)
(*                                                                         *)
(* Python values are modelled as records: None, NaN and rational numbers   *)
(* n/d (d > 0, lowest terms).  cls is "float" for instances of the builtin *)
(* float (numpy.float64 included) and "int64" for numpy integers, which    *)
(* are numbers but not instances of int or float.  Python strings are      *)
(* sequences of one-character strings, so that formatting and parsing are  *)
(* computed and not assumed.  Dates are proleptic Gregorian day ordinals.  *)
(***************************************************************************)
EXTENDS Integers, Sequences, FiniteSets, TLC

VARIABLES
    call,             \* the last call of a helper: its name, arguments and outcome
    pc,               \* where the render pass is: "idle", in a loop or a block, "done"
    section_key, start_date, end_date, selected_entity, num_columns,
                      \* the arguments of the running display_metric_section
    prev_dates,       \* (prev_start_date, prev_end_date) of the running section
    cfg_idx,          \* position of the loop in the section's configuration list
    col_idx,          \* the column the next card goes to
    data_in,          \* what execute_query gave the last iteration
    query,            \* the query the last iteration issued: its id and parameters
    card,             \* the value and delta the last iteration gave render_metric_card
    processed,        \* the labels the loop of the running section has gone through
    recommendations,  \* the list generate_finops_recommendations has built so far
    selected_warehouse, \* its selected_warehouse argument (selected_entity is the user)
    fetched,          \* the queries its last try block issued, with what they gave
    session,          \* what the page found under "data_fetcher" in st.session_state
    ui                \* what the last step handed to the rendering layer

vars == <<call, pc, section_key, start_date, end_date, selected_entity,
          num_columns, prev_dates, cfg_idx, col_idx, data_in, query, card,
                   processed, recommendations, selected_warehouse, fetched, session, ui>>

recVars == <<recommendations, selected_warehouse, fetched>>

sectionArgs == <<section_key, start_date, end_date, selected_entity,
                 num_columns, prev_dates, cfg_idx, col_idx, data_in, query, card,
                   processed, recVars, session, ui>>

----------------------------------------------------------------------------
(* Bounds of the model *)

\* decimal_places arguments range over 0..MaxDecimals
MaxDecimals == 2
\* dates range over DateBase..DateBase+MaxSpan
MaxSpan == 2
\* 2024-01-01 as a day ordinal (date(2024,1,1).toordinal())
DateBase == 738886

----------------------------------------------------------------------------
(* Python values *)

None == [t |-> "None"]
NaN == [t |-> "nan"]

Abs(x) == IF x < 0 THEN -x ELSE x

RECURSIVE GCD(_, _)
GCD(a, b) == IF b = 0 THEN a ELSE GCD(b, a % b)

\* the float n/d, in lowest terms with d > 0
Float(n, d) ==
    LET g == GCD(Abs(n), Abs(d))
        s == IF d < 0 THEN -1 ELSE 1
    IN  [t |-> "num", cls |-> "float", n |-> s * (n \div g), d |-> s * (d \div g)]

Int64(n) == [t |-> "num", cls |-> "int64", n |-> n, d |-> 1]

IsNone(v) == v = None
IsNan(v) == v.t = "nan"
\* `value is None or math.isnan(value)`
IsMissing(v) == IsNone(v) \/ IsNan(v)
IsZero(v) == v.n = 0
Sign(v) == IF v.n > 0 THEN 1 ELSE IF v.n < 0 THEN -1 ELSE 0

\* a - b and a / b on numbers (b non-zero for the division)
Sub(a, b) == Float(a.n * b.d - b.n * a.d, a.d * b.d)
Div(a, b) == Float(a.n * b.d, a.d * b.n)
NumEq(a, b) == a.n * b.d = b.n * a.d

----------------------------------------------------------------------------
(* Python strings as sequences of characters *)

DigitChars == <<"0", "1", "2", "3", "4", "5", "6", "7", "8", "9">>
DigitChar(k) == DigitChars[k + 1]
IsDigit(c) == \E k \in 0..9 : DigitChar(k) = c
DigitVal(c) == CHOOSE k \in 0..9 : DigitChar(k) = c

RECURSIVE Digits(_)
Digits(n) == IF n < 10 THEN <<DigitChar(n)>>
             ELSE Digits(n \div 10) \o <<DigitChar(n % 10)>>

RECURSIVE PadDigits(_, _)
PadDigits(n, width) ==
    IF width = 0 THEN <<>>
    ELSE PadDigits(n \div 10, width - 1) \o <<DigitChar(n % 10)>>

\* the "," option of the format mini-language: groups of three from the right
RECURSIVE Grouped(_)
Grouped(ds) ==
    IF Len(ds) <= 3 THEN ds
    ELSE Grouped(SubSeq(ds, 1, Len(ds) - 3)) \o <<",">> \o SubSeq(ds, Len(ds) - 2, Len(ds))

NA == <<"N", "/", "A">>
NanStr == <<"n", "a", "n">>

\* format(v, "[+][,].<dp>f") for a number v: correctly rounded, ties to even
Fixed(v, dp, comma, plus) ==
    IF IsNan(v) THEN (IF plus THEN <<"+">> ELSE <<>>) \o NanStr
    ELSE
    LET a == Abs(v.n)
        q0 == a \div v.d
        r == a % v.d
        scaled == r * (10 ^ dp)
        f0 == scaled \div v.d
        rem == scaled % v.d
        odd == IF dp = 0 THEN q0 % 2 = 1 ELSE f0 % 2 = 1
        up == 2 * rem > v.d \/ (2 * rem = v.d /\ odd)
        f1 == IF up THEN f0 + 1 ELSE f0
        carry == f1 = 10 ^ dp
        q == IF carry THEN q0 + 1 ELSE q0
        f == IF carry THEN 0 ELSE f1
        sign == IF v.n < 0 THEN <<"-">> ELSE IF plus THEN <<"+">> ELSE <<>>
        ip == IF comma THEN Grouped(Digits(q)) ELSE Digits(q)
        fp == IF dp = 0 THEN <<>> ELSE <<".">> \o PadDigits(f, dp)
    IN  sign \o ip \o fp

\* format(v, "[+][,].<dp>%"): the value times 100, fixed, then "%"
Percent(v, dp, comma, plus) ==
    Fixed(IF IsNan(v) THEN v ELSE Float(v.n * 100, v.d), dp, comma, plus) \o <<"%">>

\* int(round(v)): nearest integer, ties to even
RoundHalfEven(v) ==
    LET fl == v.n \div v.d
        rem == v.n - fl * v.d
    IN  IF 2 * rem > v.d THEN fl + 1
        ELSE IF 2 * rem < v.d THEN fl
        ELSE IF fl % 2 = 0 THEN fl ELSE fl + 1

\* what a helper call yields: a returned value or a raised exception
Ret(v) == [exc |-> "none", val |-> v]
Raise(e) == [exc |-> e, val |-> <<>>]

----------------------------------------------------------------------------
(* utils/helpers.py *)

LowerChars == <<"a", "b", "c", "d", "e", "f", "g", "h", "i", "j", "k", "l", "m",
                "n", "o", "p", "q", "r", "s", "t", "u", "v", "w", "x", "y", "z">>
UpperChars == <<"A", "B", "C", "D", "E", "F", "G", "H", "I", "J", "K", "L", "M",
                "N", "O", "P", "Q", "R", "S", "T", "U", "V", "W", "X", "Y", "Z">>

\* str.upper()
UpperChar(c) ==
    IF \E i \in 1..26 : LowerChars[i] = c
    THEN UpperChars[CHOOSE i \in 1..26 : LowerChars[i] = c]
    ELSE c
Upper(str) == [i \in 1..Len(str) |-> UpperChar(str[i])]

\* the defaults of the keyword arguments
DefaultDecimalsCurrency == 2
DefaultDecimalsPercentage == 1
DefaultDecimalsBytes == 2
DefaultDecimalsDuration == 1
DefaultUnit == <<"G", "B">>
DefaultCurrencySymbol == <<"$">>

format_currency(value, currency_symbol, decimal_places) ==
    IF IsMissing(value) THEN Ret(NA)
    ELSE Ret(currency_symbol \o Fixed(value, decimal_places, TRUE, FALSE))

\* a format_percentage that tests only for None
format_percentage_none_only(value, decimal_places) ==
    IF IsNone(value) THEN Ret(NA)
    ELSE Ret(Percent(value, decimal_places, FALSE, FALSE))

format_percentage(value, decimal_places) ==
    IF IsMissing(value) THEN Ret(NA)
    ELSE Ret(Percent(value, decimal_places, FALSE, FALSE))

\* a calculate_delta_percentage that answers 0.0 for every zero baseline
calculate_delta_percentage_zero_base(current_value, previous_value) ==
    IF IsNone(current_value) \/ IsNone(previous_value)
       \/ IsNan(current_value) \/ IsNan(previous_value)
    THEN None
    ELSE IF IsZero(previous_value) THEN Float(0, 1)
    ELSE Div(Sub(current_value, previous_value), previous_value)

\* a calculate_delta_percentage that divides by the current value
calculate_delta_percentage_by_current(current_value, previous_value) ==
    IF IsNone(current_value) \/ IsNone(previous_value)
       \/ IsNan(current_value) \/ IsNan(previous_value)
    THEN None
    ELSE IF IsZero(previous_value)
    THEN (IF IsZero(current_value) THEN Float(0, 1) ELSE None)
    ELSE IF IsZero(current_value) THEN None
    ELSE Div(Sub(current_value, previous_value), current_value)

calculate_delta_percentage(current_value, previous_value) ==
    IF IsNone(current_value) \/ IsNone(previous_value)
       \/ IsNan(current_value) \/ IsNan(previous_value)
    THEN None
    ELSE IF IsZero(previous_value)
    THEN (IF IsZero(current_value) THEN Float(0, 1) ELSE None)
    ELSE Div(Sub(current_value, previous_value), previous_value)

\* units = {"KB": 1, "MB": 2, "GB": 3, "TB": 4}
units == [u \in {<<"K", "B">>, <<"M", "B">>, <<"G", "B">>, <<"T", "B">>} |->
            CASE u = <<"K", "B">> -> 1
              [] u = <<"M", "B">> -> 2
              [] u = <<"G", "B">> -> 3
              [] u = <<"T", "B">> -> 4]

\* v / (1024 ** power)
RECURSIVE DivPow1024(_, _)
DivPow1024(v, power) ==
    IF power = 0 THEN v ELSE DivPow1024(Float(v.n, v.d * 1024), power - 1)

\* a format_bytes that renders an unknown unit as plain bytes instead of raising
format_bytes_degraded(bytes_value, unit, decimal_places) ==
    IF IsMissing(bytes_value) THEN Ret(NA)
    ELSE LET power == IF Upper(unit) \in DOMAIN units THEN units[Upper(unit)] ELSE 0
             converted_value == DivPow1024(bytes_value, power)
         IN  Ret(Fixed(converted_value, decimal_places, TRUE, FALSE)
                 \o <<" ">> \o Upper(unit))

format_bytes(bytes_value, unit, decimal_places) ==
    IF IsMissing(bytes_value) THEN Ret(NA)
    ELSE IF Upper(unit) \notin DOMAIN units THEN Raise("ValueError")
    ELSE LET power == units[Upper(unit)]
             converted_value == DivPow1024(bytes_value, power)
         IN  Ret(Fixed(converted_value, decimal_places, TRUE, FALSE)
                 \o <<" ">> \o Upper(unit))

\* a format_duration_seconds that leaves out the zero-valued hours and minutes
format_duration_seconds_skip_zero(seconds_in, decimal_places) ==
    IF IsMissing(seconds_in) THEN Ret(NA)
    ELSE
    LET total == RoundHalfEven(seconds_in)
        sec(n) == Fixed(Int64(n), decimal_places, FALSE, FALSE) \o <<"s">>
        part(n, u) == IF n = 0 THEN <<>> ELSE Digits(n) \o <<u, " ">>
    IN  IF total < 60 THEN Ret(sec(total))
        ELSE Ret(part(total \div 86400, "d") \o part((total \div 3600) % 24, "h")
                 \o part((total \div 60) % 60, "m") \o sec(total % 60))

format_duration_seconds(seconds_in, decimal_places) ==
    IF IsMissing(seconds_in) THEN Ret(NA)
    ELSE
    LET total == RoundHalfEven(seconds_in)
        sec(n) == Fixed(Int64(n), decimal_places, FALSE, FALSE) \o <<"s">>
        minutes0 == total \div 60
        seconds == total % 60
        hours0 == minutes0 \div 60
        minutes == minutes0 % 60
        days == hours0 \div 24
        hours == hours0 % 24
    IN  IF total < 60 THEN Ret(sec(total))
        ELSE IF minutes0 < 60
        THEN Ret(Digits(minutes0) \o <<"m", " ">> \o sec(seconds))
        ELSE IF hours0 < 24
        THEN Ret(Digits(hours0) \o <<"h", " ">> \o Digits(minutes) \o <<"m", " ">>
                 \o sec(seconds))
        ELSE Ret(Digits(days) \o <<"d", " ">> \o Digits(hours) \o <<"h", " ">>
                 \o Digits(minutes) \o <<"m", " ">> \o sec(seconds))

----------------------------------------------------------------------------
(* core/data_fetcher.py *)

\* timedelta(days=1)
OneDay == 1

\* a calculate_prev_period_dates whose previous period ends on start itself
calculate_prev_period_dates_overlap(start, end) ==
    LET duration == end - start
        prev_end_date == start
        prev_start_date == prev_end_date - duration
    IN  <<prev_start_date, prev_end_date>>

calculate_prev_period_dates(start, end) ==
    LET duration == end - start
        prev_end_date == start - OneDay
        prev_start_date == prev_end_date - duration
    IN  <<prev_start_date, prev_end_date>>

----------------------------------------------------------------------------
(* str.format and str(): the format mini-language as the configuration uses it *)

\* position of the first c in str, 0 when there is none
IndexOf(str, c) ==
    IF \E i \in 1..Len(str) : str[i] = c
    THEN CHOOSE i \in 1..Len(str) : str[i] = c /\ \A j \in 1..(i - 1) : str[j] # c
    ELSE 0
\* position of the last c in str, 0 when there is none
LastIndexOf(str, c) ==
    IF \E i \in 1..Len(str) : str[i] = c
    THEN CHOOSE i \in 1..Len(str) : str[i] = c /\ \A j \in (i + 1)..Len(str) : str[j] # c
    ELSE 0

\* format(v, spec) for a spec "[+][,].<digit>(f|%)"
ApplySpec(spec, v) ==
    LET plus == Len(spec) > 0 /\ spec[1] = "+"
        comma == \E i \in 1..Len(spec) : spec[i] = ","
        dp == DigitVal(spec[IndexOf(spec, ".") + 1])
    IN  IF spec[Len(spec)] = "%" THEN Percent(v, dp, comma, plus)
        ELSE Fixed(v, dp, comma, plus)

\* template.format(v) for a template with one replacement field "{:spec}"
PyFormat(template, v) ==
    LET open == IndexOf(template, "{")
        close == IndexOf(template, "}")
    IN  SubSeq(template, 1, open - 1)
        \o ApplySpec(SubSeq(template, open + 2, close - 1), v)
        \o SubSeq(template, close + 1, Len(template))

\* the most fraction digits str() of a float is modelled with
MaxReprDigits == 6

\* str(v) of a number: a numpy integer prints its digits, a float its shortest
\* decimal form with at least one fraction digit
PyStr(v) ==
    IF IsNan(v) THEN NanStr
    ELSE IF v.cls = "int64" THEN Fixed(v, 0, FALSE, FALSE)
    ELSE LET exact == {k \in 1..MaxReprDigits : (Abs(v.n) * (10 ^ k)) % v.d = 0}
             k == IF exact = {} THEN MaxReprDigits
                  ELSE CHOOSE m \in exact : \A o \in exact : m <= o
         IN  Fixed(v, k, FALSE, FALSE)

----------------------------------------------------------------------------
(* models/dashboard_configs.py *)

\* a configuration string that is None or absent (both are falsy)
NoStr == ""

\* APP_THEME: a non-empty dictionary
APP_THEME == [primary_color |-> "#007BFF", background_color |-> "#F0F2F6",
              secondary_background_color |-> "#FFFFFF", text_color |-> "#212529",
              font |-> "Segoe UI", chart_height |-> 350,
              chart_colors |-> <<"#007BFF", "#28A745", "#FFC107", "#DC3545", "#6F42C1",
                                 "#17A2B8", "#FD7E14", "#E83E8C", "#6C757D", "#20C997">>]

FmtInt == <<"{", ":", ",", ".", "0", "f", "}">>
FmtUsd == <<"$", "{", ":", ",", ".", "2", "f", "}">>
FmtDelta == <<"{", ":", "+", ".", "2", "%", "}">>
FmtSeconds == <<"{", ":", ",", ".", "1", "f", "}", "s">>
FmtCredits == <<"{", ":", ",", ".", "3", "f", "}">>
FmtPct == <<"{", ":", ".", "1", "%", "}">>
FmtGB == <<"{", ":", ",", ".", "2", "f", "}", " ", "G", "B">>
FmtMin == <<"{", ":", ",", ".", "0", "f", "}", " ", "m", "i", "n">>
FmtSec == <<"{", ":", ",", ".", "0", "f", "}", " ", "s">>

METRIC_CARD_CONFIGS ==
    [OVERVIEW_METRICS |-> <<
        [label |-> "Total Credits Used", query_id |-> "TOTAL_COST_AND_CREDITS_OVERVIEW",
         value_col |-> "TOTAL_CREDITS", delta_col |-> "PREV_TOTAL_CREDITS",
         format_value |-> FmtInt, format_delta |-> FmtDelta],
        [label |-> "Estimated Total Cost", query_id |-> "TOTAL_COST_AND_CREDITS_OVERVIEW",
         value_col |-> "ESTIMATED_COST_USD", delta_col |-> "PREV_ESTIMATED_COST_USD",
         format_value |-> FmtUsd, format_delta |-> FmtDelta] >>,
     USER_360_METRICS |-> <<
        [label |-> "Total Credits (User)", query_id |-> "USER_360_SUMMARY_METRICS",
         value_col |-> "TOTAL_CREDITS", delta_col |-> "PREV_TOTAL_CREDITS",
         format_value |-> FmtInt, format_delta |-> FmtDelta],
        [label |-> "Estimated Cost (User)", query_id |-> "USER_360_SUMMARY_METRICS",
         value_col |-> "ESTIMATED_COST_USD", delta_col |-> "PREV_ESTIMATED_COST_USD",
         format_value |-> FmtUsd, format_delta |-> FmtDelta],
        [label |-> "Avg. Query Duration", query_id |-> "USER_360_SUMMARY_METRICS",
         value_col |-> "AVG_QUERY_DURATION_SEC", delta_col |-> NoStr,
         format_value |-> FmtSeconds, formatter_func |-> "format_duration_seconds"],
        [label |-> "Avg. Credits/Query", query_id |-> "USER_360_SUMMARY_METRICS",
         value_col |-> "AVG_CREDITS_PER_QUERY", delta_col |-> NoStr,
         format_value |-> FmtCredits],
        [label |-> "Total Query Count", query_id |-> "USER_360_SUMMARY_METRICS",
         value_col |-> "TOTAL_QUERY_COUNT", delta_col |-> NoStr,
         format_value |-> FmtInt],
        [label |-> "Failed Query Rate", query_id |-> "USER_360_SUMMARY_METRICS",
         value_col |-> "FAILED_QUERY_RATE", delta_col |-> NoStr,
         format_value |-> FmtPct, formatter_func |-> "format_percentage"],
        [label |-> "Total Data Scanned", query_id |-> "USER_360_SUMMARY_METRICS",
         value_col |-> "TOTAL_BYTES_SCANNED", delta_col |-> NoStr,
         format_value |-> FmtGB, formatter_func |-> "format_bytes"] >>,
     WAREHOUSE_METRICS |-> <<
        [label |-> "Total Credits (Warehouse)", query_id |-> "WAREHOUSE_SUMMARY_METRICS",
         value_col |-> "TOTAL_CREDITS_USED", delta_col |-> "PREV_TOTAL_CREDITS_USED",
         format_value |-> FmtInt, format_delta |-> FmtDelta],
        [label |-> "Estimated Cost (Warehouse)", query_id |-> "WAREHOUSE_SUMMARY_METRICS",
         value_col |-> "ESTIMATED_COST_USD", delta_col |-> "PREV_ESTIMATED_COST_USD",
         format_value |-> FmtUsd, format_delta |-> FmtDelta],
        [label |-> "Idle Percentage", query_id |-> "WAREHOUSE_SUMMARY_METRICS",
         value_col |-> "IDLE_PERCENTAGE", delta_col |-> NoStr,
         format_value |-> FmtPct, formatter_func |-> "format_percentage"],
        [label |-> "Total Active Minutes", query_id |-> "WAREHOUSE_SUMMARY_METRICS",
         value_col |-> "ACTIVE_MINUTES", delta_col |-> NoStr,
         format_value |-> FmtMin],
        [label |-> "Auto Suspend", query_id |-> "WAREHOUSE_SUMMARY_METRICS",
         value_col |-> "AUTO_SUSPEND", delta_col |-> NoStr,
         format_value |-> FmtSec] >>]

\* a section whose configuration is being edited: the second entry has no query_id
\* yet, the case lines 61-63 of display_metric_section guard against
DRAFT_METRIC_CONFIGS ==
    [DRAFT_METRICS |-> <<
        [label |-> "Draft Credits", query_id |-> "TOTAL_COST_AND_CREDITS_OVERVIEW",
         value_col |-> "TOTAL_CREDITS"],
        [label |-> "Draft Cost", value_col |-> "ESTIMATED_COST_USD",
         format_value |-> FmtUsd],
        [value_col |-> "ESTIMATED_COST_USD", query_id |-> "TOTAL_COST_AND_CREDITS_OVERVIEW",
         format_value |-> FmtUsd] >>]

\* the metric configurations display_metric_section looks section_key up in
ConfiguredMetrics == METRIC_CARD_CONFIGS @@ DRAFT_METRIC_CONFIGS

\* (the descriptions are written without their backquotes)
CHART_CONFIGS ==
    [OVERVIEW_CHARTS |-> <<
        [title |-> "Daily Credit Consumption Trend",
         description |-> "Total daily credit consumption across all services.",
         query_id |-> "DAILY_CREDIT_CONSUMPTION_TREND", chart_type |-> "line",
         x_col |-> "USAGE_DAY", y_col |-> "DAILY_CREDITS_USED",
         x_axis_title |-> "Date", y_axis_title |-> "Credits Used"],
        [title |-> "Estimated Cost by Service Type",
         description |-> "Cost breakdown by Snowflake service type (e.g., Compute, Storage, Cloud Services).",
         query_id |-> "COST_BY_SERVICE_TYPE", chart_type |-> "bar",
         x_col |-> "SERVICE_TYPE", y_col |-> "ESTIMATED_COST_USD",
         x_axis_title |-> "Service Type", y_axis_title |-> "Estimated Cost (USD)",
         sort_desc |-> TRUE],
        [title |-> "Top 10 Warehouses by Cost",
         description |-> "The warehouses incurring the highest costs.",
         query_id |-> "TOP_10_WAREHOUSES_BY_COST", chart_type |-> "bar",
         x_col |-> "WAREHOUSE_NAME", y_col |-> "ESTIMATED_COST_USD",
         x_axis_title |-> "Warehouse Name", y_axis_title |-> "Estimated Cost (USD)",
         sort_desc |-> TRUE],
        [title |-> "Top 10 Users by Cost",
         description |-> "The users incurring the highest costs.",
         query_id |-> "TOP_10_USERS_BY_COST", chart_type |-> "bar",
         x_col |-> "USER_NAME", y_col |-> "ESTIMATED_COST_USD",
         x_axis_title |-> "User Name", y_axis_title |-> "Estimated Cost (USD)",
         sort_desc |-> TRUE] >>,
     USER_360_CHARTS |-> <<
        [title |-> "User's Daily Credit Consumption Trend",
         description |-> "Visualizes daily credit consumption by the selected user to identify personal trends.",
         query_id |-> "USER_DAILY_CREDIT_CONSUMPTION", chart_type |-> "line",
         x_col |-> "USAGE_DAY", y_col |-> "DAILY_CREDITS_USED",
         x_axis_title |-> "Date", y_axis_title |-> "Credits Used"],
        [title |-> "User's Estimated Cost by Query Type",
         description |-> "Breakdown of estimated costs by the types of queries run by this user (e.g., SELECT, DML, DDL).",
         query_id |-> "USER_QUERY_TYPE_DISTRIBUTION", chart_type |-> "bar",
         x_col |-> "QUERY_TYPE", y_col |-> "ESTIMATED_COST_USD",
         x_axis_title |-> "Query Type", y_axis_title |-> "Estimated Cost (USD)",
         sort_desc |-> TRUE],
        [title |-> "User's Top 10 Warehouses by Estimated Cost",
         description |-> "Warehouses where the user incurred the highest estimated costs. Consider if the right warehouse size/type is being used.",
         query_id |-> "USER_WAREHOUSE_COST_BREAKDOWN", chart_type |-> "bar",
         x_col |-> "WAREHOUSE_NAME", y_col |-> "ESTIMATED_COST_USD",
         x_axis_title |-> "Warehouse Name", y_axis_title |-> "Estimated Cost (USD)",
         sort_desc |-> TRUE],
        [title |-> "User's Top 10 Roles by Estimated Cost",
         description |-> "Snowflake roles the user frequently assumed that incurred the highest estimated costs. Review role privileges and usage patterns.",
         query_id |-> "USER_ROLE_COST_BREAKDOWN", chart_type |-> "bar",
         x_col |-> "ROLE_NAME", y_col |-> "ESTIMATED_COST_USD",
         x_axis_title |-> "Role Name", y_axis_title |-> "Estimated Cost (USD)",
         sort_desc |-> TRUE],
        [title |-> "Underutilized Warehouses (Used by User)",
         description |-> "Warehouses used by this user that exhibit significant idle time. Opportunities to adjust AUTO_SUSPEND.",
         query_id |-> "USER_WAREHOUSE_UTILIZATION_OVERVIEW", chart_type |-> "table"],
        [title |-> "User's Top 20 Most Expensive Queries",
         description |-> "The user's queries that consumed the most credits. Prioritize these for optimization, examining QUERY_TEXT.",
         query_id |-> "USER_TOP_EXPENSIVE_QUERIES", chart_type |-> "table"],
        [title |-> "User's Top 20 Longest Running Queries",
         description |-> "The user's queries with the longest execution times. Analyze QUEUED_OVERLOAD_TIME and COMPILATION_TIME for bottlenecks.",
         query_id |-> "USER_TOP_LONG_RUNNING_QUERIES", chart_type |-> "table"] >>,
     WAREHOUSE_INSIGHTS_CHARTS |-> <<
        [title |-> "Warehouse Daily Credit Consumption",
         description |-> "Trend of daily credit consumption for the selected warehouse.",
         query_id |-> "WAREHOUSE_DAILY_CREDIT_CONSUMPTION", chart_type |-> "line",
         x_col |-> "USAGE_DAY", y_col |-> "DAILY_CREDITS_USED",
         x_axis_title |-> "Date", y_axis_title |-> "Credits Used"],
        [title |-> "Warehouse Query Completion Status",
         description |-> "Breakdown of query success vs. failure rates for this warehouse.",
         query_id |-> "WAREHOUSE_QUERY_COMPLETION_STATUS", chart_type |-> "pie",
         name_col |-> "STATUS", value_col |-> "QUERY_COUNT",
         x_axis_title |-> "Status", y_axis_title |-> "Query Count"],
        [title |-> "Warehouse Query Completion Cost",
         description |-> "Cost breakdown by query success vs. failure rates for this warehouse.",
         query_id |-> "WAREHOUSE_QUERY_COMPLETION_STATUS", chart_type |-> "pie",
         name_col |-> "STATUS", value_col |-> "ESTIMATED_COST_USD",
         x_axis_title |-> "Status", y_axis_title |-> "Estimated Cost (USD)"],
        [title |-> "Top 10 Users on this Warehouse by Cost",
         description |-> "Users who incurred the most cost on this specific warehouse.",
         query_id |-> "WAREHOUSE_TOP_USERS_BY_COST", chart_type |-> "bar",
         x_col |-> "USER_NAME", y_col |-> "ESTIMATED_COST_USD",
         x_axis_title |-> "User Name", y_axis_title |-> "Estimated Cost (USD)",
         sort_desc |-> TRUE],
        [title |-> "Top 10 Roles on this Warehouse by Cost",
         description |-> "Roles that incurred the most cost on this specific warehouse.",
         query_id |-> "WAREHOUSE_TOP_ROLES_BY_COST", chart_type |-> "bar",
         x_col |-> "ROLE_NAME", y_col |-> "ESTIMATED_COST_USD",
         x_axis_title |-> "Role Name", y_axis_title |-> "Estimated Cost (USD)",
         sort_desc |-> TRUE],
        [title |-> "Warehouse Queued Overload Time Trend",
         description |-> "Daily trend of time queries spent queued due to warehouse overload. High values indicate undersized warehouse.",
         query_id |-> "WAREHOUSE_QUEUED_OVERLOAD_TIME_TREND", chart_type |-> "line",
         x_col |-> "USAGE_DAY", y_col |-> "TOTAL_QUEUED_OVERLOAD_TIME_SEC",
         x_axis_title |-> "Date", y_axis_title |-> "Total Queued Time (seconds)"] >>]

\* a chart section whose configuration is being edited: the second entry has no
\* query_id yet, the case lines 155-157 of display_chart_section guard against
DRAFT_CHART_CONFIGS ==
    [DRAFT_CHARTS |-> <<
        [title |-> "Draft Trend", query_id |-> "DAILY_CREDIT_CONSUMPTION_TREND",
         chart_type |-> "line", x_col |-> "USAGE_DAY", y_col |-> "DAILY_CREDITS_USED"],
        [title |-> "Draft Bars", chart_type |-> "bar",
         x_col |-> "SERVICE_TYPE", y_col |-> "ESTIMATED_COST_USD"],
        [title |-> "Draft Table", query_id |-> "COST_BY_SERVICE_TYPE",
         chart_type |-> "table"] >>]

\* the chart configurations display_chart_section looks section_key up in
ConfiguredCharts == CHART_CONFIGS @@ DRAFT_CHART_CONFIGS

\* dict.get(key, default)
Get(d, key, default) == IF key \in DOMAIN d THEN d[key] ELSE default

----------------------------------------------------------------------------
(* What the core hands to the rendering layer *)

\* a display_delta of None
NoDelta == <<"None">>
\* a delta_color of None
NoColor == "None"

Header == [kind |-> "header"]
WarningBox(why) == [kind |-> "warning_box", why |-> why]
ErrorBox(label, why) == [kind |-> "error_box", label |-> label, why |-> why]
Warning(label, why) == [kind |-> "warning", label |-> label, why |-> why]
Metric(label, value, delta, delta_color) ==
    [kind |-> "metric", label |-> label, value |-> value, delta |-> delta,
     delta_color |-> delta_color]

----------------------------------------------------------------------------
(* ui/metric_card.py *)

\* the functions of the helpers module: hasattr(...) and inspect.isfunction(...)
HelperFunctions == {"format_currency", "format_percentage", "calculate_delta_percentage",
                    "format_bytes", "format_duration_seconds"}

\* "decimal_places" in inspect.signature(formatter).parameters
HasDecimalPlaces(name) == name # "calculate_delta_percentage"

\* isinstance(value, (int, float)): a float (NaN is one), never None or a numpy integer
IsIntOrFloat(v) == IsNan(v) \/ (v.t = "num" /\ v.cls = "float")

\* formatter(value, decimal_places=dp)
CallFormatter(name, value, dp) ==
    CASE name = "format_currency" -> format_currency(value, DefaultCurrencySymbol, dp)
      [] name = "format_percentage" -> format_percentage(value, dp)
      [] name = "format_bytes" -> format_bytes(value, DefaultUnit, dp)
      [] name = "format_duration_seconds" -> format_duration_seconds(value, dp)
      [] OTHER -> Raise("TypeError")

\* formatter(value)
CallFormatterDefault(name, value) ==
    CASE name = "format_currency" ->
            format_currency(value, DefaultCurrencySymbol, DefaultDecimalsCurrency)
      [] name = "format_percentage" -> format_percentage(value, DefaultDecimalsPercentage)
      [] name = "format_bytes" -> format_bytes(value, DefaultUnit, DefaultDecimalsBytes)
      [] name = "format_duration_seconds" ->
            format_duration_seconds(value, DefaultDecimalsDuration)
      [] OTHER -> Raise("TypeError")

\* int(format_value.split('.')[-1][0])
ParseDecimalPlaces(format_value) ==
    LET last == SubSeq(format_value, LastIndexOf(format_value, ".") + 1, Len(format_value))
    IN  IF last = <<>> THEN Raise("IndexError")
        ELSE IF ~IsDigit(last[1]) THEN Raise("ValueError")
        ELSE Ret(DigitVal(last[1]))

\* a DisplayValue that shows str(value) when the formatter is not found
DisplayValue_raw(label, value, format_value, formatter_func) ==
    LET plain == IF ~IsNone(value) THEN PyFormat(format_value, value) ELSE NA
        raw == IF ~IsNone(value) THEN PyStr(value) ELSE NA
    IN  IF formatter_func # NoStr
        THEN IF formatter_func \in HelperFunctions
             THEN LET p == ParseDecimalPlaces(format_value)
                      withDp == IF p.exc = "none"
                                THEN CallFormatter(formatter_func, value, p.val)
                                ELSE p
                      r == IF IsIntOrFloat(value) /\ HasDecimalPlaces(formatter_func)
                           THEN IF withDp.exc \in {"ValueError", "IndexError"}
                                THEN CallFormatterDefault(formatter_func, value)
                                ELSE withDp
                           ELSE CallFormatterDefault(formatter_func, value)
                  IN  IF r.exc = "none"
                      THEN [warn |-> <<>>, text |-> r.val]
                      ELSE [warn |-> <<Warning(label, "formatter_error")>>, text |-> raw]
             ELSE [warn |-> <<Warning(label, "formatter_not_found")>>, text |-> raw]
        ELSE [warn |-> <<>>, text |-> plain]

\* lines 41-64: the warnings raised and the display value
DisplayValue(label, value, format_value, formatter_func) ==
    LET plain == IF ~IsNone(value) THEN PyFormat(format_value, value) ELSE NA
    IN  IF formatter_func # NoStr
        THEN IF formatter_func \in HelperFunctions
             THEN LET p == ParseDecimalPlaces(format_value)
                      withDp == IF p.exc = "none"
                                THEN CallFormatter(formatter_func, value, p.val)
                                ELSE p
                      r == IF IsIntOrFloat(value) /\ HasDecimalPlaces(formatter_func)
                           THEN IF withDp.exc \in {"ValueError", "IndexError"}
                                THEN CallFormatterDefault(formatter_func, value)
                                ELSE withDp
                           ELSE CallFormatterDefault(formatter_func, value)
                  IN  IF r.exc = "none"
                      THEN [warn |-> <<>>, text |-> r.val]
                      ELSE [warn |-> <<Warning(label, "formatter_error")>>,
                            text |-> IF ~IsNone(value) THEN PyStr(value) ELSE NA]
             ELSE [warn |-> <<Warning(label, "formatter_not_found")>>, text |-> plain]
        ELSE [warn |-> <<>>, text |-> plain]

\* a DisplayDelta with the polarity the other way round
DisplayDelta_reversed(value, delta, format_delta, theme_config) ==
    IF ~IsNone(delta)
    THEN LET delta_percentage == calculate_delta_percentage(value, delta)
         IN  IF ~IsNone(delta_percentage)
             THEN [text |-> PyFormat(format_delta, delta_percentage),
                   color |-> IF DOMAIN theme_config # {}
                             THEN IF Sign(delta_percentage) > 0 THEN "normal"
                                  ELSE IF Sign(delta_percentage) < 0 THEN "inverse"
                                  ELSE "off"
                             ELSE NoColor]
             ELSE [text |-> NA, color |-> NoColor]
    ELSE [text |-> NoDelta, color |-> NoColor]

\* a DisplayDelta that shows "N/A" also when there is no delta at all
DisplayDelta_always(value, delta, format_delta, theme_config) ==
    LET delta_percentage == IF IsNone(delta) THEN None
                            ELSE calculate_delta_percentage(value, delta)
    IN  IF ~IsNone(delta_percentage)
        THEN [text |-> PyFormat(format_delta, delta_percentage),
              color |-> IF DOMAIN theme_config # {}
                        THEN IF Sign(delta_percentage) > 0 THEN "inverse"
                             ELSE IF Sign(delta_percentage) < 0 THEN "normal"
                             ELSE "off"
                        ELSE NoColor]
        ELSE [text |-> NA, color |-> NoColor]

\* lines 67-87: the display delta and its color
DisplayDelta(value, delta, format_delta, theme_config) ==
    IF ~IsNone(delta)
    THEN LET delta_percentage == calculate_delta_percentage(value, delta)
         IN  IF ~IsNone(delta_percentage)
             THEN [text |-> PyFormat(format_delta, delta_percentage),
                   color |-> IF DOMAIN theme_config # {}
                             THEN IF Sign(delta_percentage) > 0 THEN "inverse"
                                  ELSE IF Sign(delta_percentage) < 0 THEN "normal"
                                  ELSE "off"
                             ELSE NoColor]
             ELSE [text |-> NA, color |-> NoColor]
    ELSE [text |-> NoDelta, color |-> NoColor]

\* the warnings and the st.metric call of one card
render_metric_card(label, value, delta, format_value, format_delta, formatter_func, theme_config) ==
    LET v == DisplayValue(label, value, format_value, formatter_func)
        d == DisplayDelta(value, delta, format_delta, theme_config)
    IN  v.warn \o <<Metric(label, v.text, d.text, d.color)>>

----------------------------------------------------------------------------
(* modules/dashboard_sections.py: display_metric_section *)

\* a DataFrame is the sequence of its rows, each a function of the column names;
\* pd.DataFrame([]) has no columns
Columns(data) == IF data = <<>> THEN {} ELSE DOMAIN data[1]
IsEmpty(data) == data = <<>>
\* data[col].iloc[0]
Iloc0(data, col) == data[1][col]

\* what execute_query does: raises DataFetchError or returns a DataFrame
FetchError == [err |-> TRUE, rows |-> <<>>]
Fetched(rows) == [err |-> FALSE, rows |-> rows]

\* section_key.startswith("USER_") / .startswith("WAREHOUSE_")
StartsWithUser(key) == key \in {"USER_360_METRICS", "USER_360_CHARTS"}
StartsWithWarehouse(key) ==
    key \in {"WAREHOUSE_METRICS", "WAREHOUSE_CHARTS", "WAREHOUSE_INSIGHTS_CHARTS"}

NoQuery == [query_id |-> NoStr, params |-> <<>>]
\* render_metric_card was not called
NoCard == [called |-> FALSE, value |-> None, delta |-> None]

\* lines 65-75
MetricParams(key, start, end, prev, entity) ==
    LET base == [k \in {"start_date", "end_date", "prev_start_date", "prev_end_date"} |->
                    CASE k = "start_date" -> start
                      [] k = "end_date" -> end
                      [] k = "prev_start_date" -> prev[1]
                      [] k = "prev_end_date" -> prev[2]]
        name == IF entity = NoStr THEN NoStr
                ELSE IF StartsWithUser(key) THEN "selected_user_name"
                ELSE IF StartsWithWarehouse(key) THEN "selected_warehouse_name"
                ELSE NoStr
    IN  IF name = NoStr THEN base
        ELSE [k \in DOMAIN base \cup {name} |-> IF k = name THEN entity ELSE base[k]]

\* a FailedQueryRate without a value when there are no queries
FailedQueryRate_no_guard(data) ==
    LET total_queries == IF "TOTAL_QUERY_COUNT" \in Columns(data) /\ ~IsEmpty(data)
                         THEN Iloc0(data, "TOTAL_QUERY_COUNT") ELSE Float(0, 1)
        failed_queries == IF "FAILED_QUERY_COUNT" \in Columns(data) /\ ~IsEmpty(data)
                          THEN Iloc0(data, "FAILED_QUERY_COUNT") ELSE Float(0, 1)
    IN  IF IsNone(total_queries) THEN Raise("TypeError")
        ELSE IF ~IsNan(total_queries) /\ Sign(total_queries) > 0
        THEN IF IsNone(failed_queries) THEN Raise("TypeError")
             ELSE IF IsNan(failed_queries) THEN Ret(NaN)
             ELSE Ret(Div(failed_queries, total_queries))
        ELSE Ret(None)

\* lines 88-98: the derived value of 'Failed Query Rate'; exc when Python raises
FailedQueryRate(data) ==
    LET total_queries == IF "TOTAL_QUERY_COUNT" \in Columns(data) /\ ~IsEmpty(data)
                         THEN Iloc0(data, "TOTAL_QUERY_COUNT") ELSE Float(0, 1)
        failed_queries == IF "FAILED_QUERY_COUNT" \in Columns(data) /\ ~IsEmpty(data)
                          THEN Iloc0(data, "FAILED_QUERY_COUNT") ELSE Float(0, 1)
    IN  IF IsNone(total_queries) THEN Raise("TypeError")
        ELSE IF ~IsNan(total_queries) /\ Sign(total_queries) > 0
        THEN IF IsNone(failed_queries) THEN Raise("TypeError")
             ELSE IF IsNan(failed_queries) THEN Ret(NaN)
             ELSE Ret(Div(failed_queries, total_queries))
        ELSE Ret(Float(0, 1))

\* a MetricBody that reports nothing when the fetch fails
MetricBody_silent(key, config, start, end, prev, entity, outcome) ==
    LET label == Get(config, "label", "Unknown Metric")
        query_id == Get(config, "query_id", NoStr)
        value_col == Get(config, "value_col", NoStr)
        delta_col == Get(config, "delta_col", NoStr)
        format_value == Get(config, "format_value", FmtInt)
        format_delta == Get(config, "format_delta", FmtDelta)
        formatter_func == Get(config, "formatter_func", NoStr)
        params == MetricParams(key, start, end, prev, entity)
        data == outcome.rows
        has_value == ~IsEmpty(data) /\ value_col \in Columns(data)
        read_value == IF has_value THEN Iloc0(data, value_col) ELSE None
        read_delta == IF has_value /\ delta_col # NoStr /\ delta_col \in Columns(data)
                      THEN Iloc0(data, delta_col) ELSE None
        derived == label = "Failed Query Rate" /\ key = "USER_360_METRICS"
        rate == FailedQueryRate(data)
        current_value == IF derived THEN rate.val ELSE read_value
        previous_value == IF derived THEN None ELSE read_delta
    IN  IF query_id = NoStr \/ value_col = NoStr
        THEN [query |-> NoQuery, card |-> NoCard,
              ui |-> <<ErrorBox(label, "incomplete")>>, advance |-> FALSE]
        ELSE IF outcome.err
        THEN [query |-> [query_id |-> query_id, params |-> params], card |-> NoCard,
              ui |-> <<>>, advance |-> TRUE]
        ELSE IF derived /\ rate.exc # "none"
        THEN [query |-> [query_id |-> query_id, params |-> params], card |-> NoCard,
              ui |-> <<ErrorBox(label, "unexpected")>>, advance |-> TRUE]
        ELSE [query |-> [query_id |-> query_id, params |-> params],
              card |-> [called |-> TRUE, value |-> current_value,
                        delta |-> previous_value],
              ui |-> render_metric_card(label, current_value, previous_value,
                                        format_value, format_delta, formatter_func,
                                        APP_THEME),
              advance |-> TRUE]

\* one pass of the loop body (lines 51-116) for `config`, given what execute_query
\* does: the query issued, what is rendered, and whether line 118 is reached
MetricBody(key, config, start, end, prev, entity, outcome) ==
    LET label == Get(config, "label", "Unknown Metric")
        query_id == Get(config, "query_id", NoStr)
        value_col == Get(config, "value_col", NoStr)
        delta_col == Get(config, "delta_col", NoStr)
        format_value == Get(config, "format_value", FmtInt)
        format_delta == Get(config, "format_delta", FmtDelta)
        formatter_func == Get(config, "formatter_func", NoStr)
        params == MetricParams(key, start, end, prev, entity)
        data == outcome.rows
        has_value == ~IsEmpty(data) /\ value_col \in Columns(data)
        read_value == IF has_value THEN Iloc0(data, value_col) ELSE None
        read_delta == IF has_value /\ delta_col # NoStr /\ delta_col \in Columns(data)
                      THEN Iloc0(data, delta_col) ELSE None
        derived == label = "Failed Query Rate" /\ key = "USER_360_METRICS"
        rate == FailedQueryRate(data)
        current_value == IF derived THEN rate.val ELSE read_value
        previous_value == IF derived THEN None ELSE read_delta
    IN  IF query_id = NoStr \/ value_col = NoStr
        THEN [query |-> NoQuery, card |-> NoCard,
              ui |-> <<ErrorBox(label, "incomplete")>>, advance |-> FALSE]
        ELSE IF outcome.err
        THEN [query |-> [query_id |-> query_id, params |-> params], card |-> NoCard,
              ui |-> <<ErrorBox(label, "fetch")>>, advance |-> TRUE]
        ELSE IF derived /\ rate.exc # "none"
        THEN [query |-> [query_id |-> query_id, params |-> params], card |-> NoCard,
              ui |-> <<ErrorBox(label, "unexpected")>>, advance |-> TRUE]
        ELSE [query |-> [query_id |-> query_id, params |-> params],
              card |-> [called |-> TRUE, value |-> current_value,
                        delta |-> previous_value],
              ui |-> render_metric_card(label, current_value, previous_value,
                                        format_value, format_delta, formatter_func,
                                        APP_THEME),
              advance |-> TRUE]

----------------------------------------------------------------------------
(* ui/chart_renderer.py *)

Info(label) == [kind |-> "info", label |-> label]
Dataframe(data) == [kind |-> "dataframe", rows |-> data]
Markdown(label) == [kind |-> "markdown", label |-> label]
Caption(text) == [kind |-> "caption", text |-> text]
\* st.altair_chart(chart): the mark, the title, the encoded fields, the sort of the
\* x axis and the data the chart is built on
AltairChart(mark, title, x, y, sort, data) ==
    [kind |-> "altair_chart", mark |-> mark, label |-> title, x |-> x, y |-> y,
     sort |-> sort, rows |-> data]

\* all(col in data.columns for col in cols); a column name of None is in no result
HasColumns(data, cols) == \A i \in 1..Len(cols) : cols[i] # NoStr /\ cols[i] \in Columns(data)

\* theme_config["text_color"] and theme_config["chart_colors"] can be read
HasChartTheme(theme_config) == {"text_color", "chart_colors"} \subseteq DOMAIN theme_config

Add(a, b) == Float(a.n * b.d + b.n * a.d, a.d * b.d)

\* data[col].sum(), from row i on
RECURSIVE SumFrom(_, _, _)
SumFrom(data, col, i) ==
    IF i > Len(data) THEN Int64(0) ELSE Add(data[i][col], SumFrom(data, col, i + 1))

\* a line chart that reads its columns without looking whether they are there
render_line_chart_unchecked(data, config, theme_config) ==
    LET x_col == Get(config, "x_col", NoStr)
        y_col == Get(config, "y_col", NoStr)
        title == Get(config, "title", "Line Chart")
    IN  IF ~HasColumns(data, <<x_col, y_col>>) \/ ~HasChartTheme(theme_config)
        THEN Raise("KeyError")
        ELSE Ret(<<AltairChart("line", title, x_col, y_col, "none", data)>>)

render_line_chart(data, config, theme_config) ==
    LET x_col == Get(config, "x_col", NoStr)
        y_col == Get(config, "y_col", NoStr)
        title == Get(config, "title", "Line Chart")
    IN  IF ~HasColumns(data, <<x_col, y_col>>)
        THEN Ret(<<Warning(title, "missing_columns_line"), Dataframe(data)>>)
        ELSE IF ~HasChartTheme(theme_config) THEN Raise("KeyError")
        ELSE Ret(<<AltairChart("line", title, x_col, y_col, "none", data)>>)

render_bar_chart(data, config, theme_config) ==
    LET x_col == Get(config, "x_col", NoStr)
        y_col == Get(config, "y_col", NoStr)
        title == Get(config, "title", "Bar Chart")
        sort_desc == Get(config, "sort_desc", FALSE)
    IN  IF ~HasColumns(data, <<x_col, y_col>>)
        THEN Ret(<<Warning(title, "missing_columns_bar"), Dataframe(data)>>)
        ELSE IF ~HasChartTheme(theme_config) THEN Raise("KeyError")
        ELSE Ret(<<AltairChart("bar", title, x_col, y_col,
                               IF sort_desc THEN "sum_descending" ELSE "none", data)>>)

\* a percentage column in which every row gets a share of the total
Percentages_equal(data, value_col) ==
    [i \in 1..Len(data) |-> Float(1, Len(data))]

\* lines 120-126: the percentage column
Percentages(data, value_col) ==
    LET total == SumFrom(data, value_col, 1)
    IN  [i \in 1..Len(data) |->
            IF Sign(total) > 0 THEN Div(data[i][value_col], total) ELSE Int64(0)]

render_pie_chart(data, config, theme_config) ==
    LET name_col == Get(config, "name_col", NoStr)
        value_col == Get(config, "value_col", NoStr)
        title == Get(config, "title", "Pie Chart")
    IN  IF ~HasColumns(data, <<name_col, value_col>>)
        THEN Ret(<<Warning(title, "missing_columns_pie"), Dataframe(data)>>)
        ELSE IF ~HasChartTheme(theme_config) THEN Raise("KeyError")
        ELSE Ret(<<AltairChart("arc", title, name_col, "percentage", "none",
                               [i \in 1..Len(data) |->
                                   ("percentage" :> Percentages(data, value_col)[i])
                                   @@ data[i]])>>)

render_table(data, config, theme_config) ==
    LET title == Get(config, "title", "Data Table")
        description == Get(config, "description", "")
    IN  Ret(<<Markdown(title)>>
            \o (IF description # "" THEN <<Caption(description)>> ELSE <<>>)
            \o (IF IsEmpty(data) THEN <<Info(title)>> ELSE <<Dataframe(data)>>))

render_chart(data, chart_config, theme_config) ==
    LET chart_type == Get(chart_config, "chart_type", NoStr)
    IN  IF IsEmpty(data) THEN Ret(<<Info(Get(chart_config, "title", "this chart"))>>)
        ELSE CASE chart_type = "line" -> render_line_chart(data, chart_config, theme_config)
               [] chart_type = "bar" -> render_bar_chart(data, chart_config, theme_config)
               [] chart_type = "pie" -> render_pie_chart(data, chart_config, theme_config)
               [] chart_type = "table" -> render_table(data, chart_config, theme_config)
               [] OTHER -> Ret(<<Warning(chart_type, "unsupported_chart_type"),
                                 Dataframe(data)>>)

\* the marks of a chart in the order they are drawn along x: with
\* sort=EncodingSortField(field=y_col, op="sum", order="descending") by y, largest
\* first, rows of equal y in the order of the data; without a sort in the order
\* of the data, which lists its x values in ascending order (each x value in one row)
DrawnRows(chart) ==
    LET rows == chart.rows
        before(j, i) == \/ rows[j][chart.y].n * rows[i][chart.y].d
                              > rows[i][chart.y].n * rows[j][chart.y].d
                        \/ /\ NumEq(rows[j][chart.y], rows[i][chart.y])
                           /\ j < i
        place(i) == 1 + Cardinality({j \in 1..Len(rows) : before(j, i)})
    IN  IF chart.sort = "sum_descending"
        THEN [k \in 1..Len(rows) |-> rows[CHOOSE i \in 1..Len(rows) : place(i) = k]]
        ELSE rows

----------------------------------------------------------------------------
(* modules/dashboard_sections.py: display_chart_section *)

\* lines 160-168
\* the parameters of a chart query with the previous period as well
ChartParams_with_prev(key, start, end, entity) ==
    MetricParams(key, start, end, calculate_prev_period_dates(start, end), entity)

ChartParams(key, start, end, entity) ==
    LET base == [k \in {"start_date", "end_date"} |->
                    IF k = "start_date" THEN start ELSE end]
        name == IF entity = NoStr THEN NoStr
                ELSE IF StartsWithUser(key) THEN "selected_user_name"
                ELSE IF StartsWithWarehouse(key) THEN "selected_warehouse_name"
                ELSE NoStr
    IN  IF name = NoStr THEN base
        ELSE [k \in DOMAIN base \cup {name} |-> IF k = name THEN entity ELSE base[k]]

\* one pass of the loop body (lines 152-179) for `config`, given what execute_query
\* does: the query issued, what is rendered, and whether line 181 is reached
ChartBody(key, config, start, end, entity, outcome) ==
    LET title == Get(config, "title", "Unknown Chart")
        query_id == Get(config, "query_id", NoStr)
        issued == [query_id |-> query_id, params |-> ChartParams(key, start, end, entity)]
    IN  IF query_id = NoStr
        THEN [query |-> NoQuery, ui |-> <<ErrorBox(title, "incomplete")>>,
              advance |-> FALSE]
        ELSE IF outcome.err
        THEN [query |-> issued, ui |-> <<ErrorBox(title, "fetch")>>, advance |-> TRUE]
        ELSE \* bound once: the rendering of the fetched data
             LET rendered == render_chart(outcome.rows, config, APP_THEME)
             IN  [query |-> issued,
                  ui |-> CASE rendered.exc = "none" -> rendered.val
                           [] rendered.exc = "KeyError" ->
                                <<ErrorBox(title, "missing_columns")>>
                           [] OTHER -> <<ErrorBox(title, "unexpected")>>,
                  advance |-> TRUE]

----------------------------------------------------------------------------
(* insights/recommendations.py: generate_finops_recommendations *)

\* an advisory string: the rule that wrote it, the selected user or warehouse it
\* names, the names it takes from the row, and the values it shows as text
Advisory(rule, subject, object, shown) ==
    [rule |-> rule, subject |-> subject, object |-> object, shown |-> shown]

\* line 192: "No specific recommendations at this time ..."
NoRecommendations == Advisory("none", NoStr, <<>>, <<>>)

\* a comparison that takes the threshold itself as above it
IsGreater_or_equal(v, n, d) == ~IsNan(v) /\ v.n * d >= n * v.d

\* v > n/d for a value that is not None: False for NaN
IsGreater(v, n, d) == ~IsNan(v) /\ v.n * d > n * v.d
\* v < n/d for a value that is not None: False for NaN
IsLess(v, n, d) == ~IsNan(v) /\ v.n * d < n * v.d

\* what a try block leaves: the exception that escapes it (or "none"), the
\* advisories it appended, the warnings it showed and the fetches it made
Block(exc, recs, warn, fetches) ==
    [exc |-> exc, recs |-> recs, warn |-> warn, fetches |-> fetches]
Fetch(query_id, params, outcome) ==
    [query_id |-> query_id, params |-> params, outcome |-> outcome]

\* the parameters with the previous period in them (lines 65-67, 88-93, 142-147)
PeriodParams(start, end) ==
    [k \in {"start_date", "end_date", "prev_start_date", "prev_end_date"} |->
        CASE k = "start_date" -> start
          [] k = "end_date" -> end
          [] k = "prev_start_date" -> calculate_prev_period_dates(start, end)[1]
          [] k = "prev_end_date" -> calculate_prev_period_dates(start, end)[2]]
DateParams(start, end) ==
    [k \in {"start_date", "end_date"} |-> IF k = "start_date" THEN start ELSE end]
With(params, name, value) ==
    [k \in DOMAIN params \cup {name} |-> IF k = name THEN value ELSE params[k]]

\* a column of a non-empty result holds a None
HasNone(data, col) == \E i \in 1..Len(data) : IsNone(data[i][col])

\* helpers.format_percentage(p / 100), as the idle-time advisories show a percentage
IdleText(p) == format_percentage(Div(p, Int64(100)), DefaultDecimalsPercentage).val

\* lines 43-57: an advisory for every warehouse over 20% idle that used credits
AccountIdleRules(data) ==
    IF IsEmpty(data) THEN Ret(<<>>)
    ELSE IF "IDLE_PERCENTAGE" \notin Columns(data) THEN Raise("KeyError")
    ELSE IF HasNone(data, "IDLE_PERCENTAGE") THEN Raise("TypeError")
    ELSE IF "TOTAL_CREDITS_USED" \notin Columns(data) THEN Raise("KeyError")
    ELSE IF HasNone(data, "TOTAL_CREDITS_USED") THEN Raise("TypeError")
    ELSE LET high_idle_warehouses ==
                 SelectSeq(data, LAMBDA row : /\ IsGreater(row["IDLE_PERCENTAGE"], 20, 1)
                                              /\ IsGreater(row["TOTAL_CREDITS_USED"], 0, 1))
         IN  IF /\ high_idle_warehouses # <<>>
                /\ ~({"WAREHOUSE_NAME", "SIZE"} \subseteq Columns(data))
             THEN Raise("KeyError")
             ELSE Ret([i \in 1..Len(high_idle_warehouses) |->
                         Advisory("account_warehouse_idle", NoStr,
                                  <<high_idle_warehouses[i]["WAREHOUSE_NAME"],
                                    high_idle_warehouses[i]["SIZE"]>>,
                                  <<IdleText(high_idle_warehouses[i]["IDLE_PERCENTAGE"])>>)])

\* lines 69-78: an advisory when the estimated cost rose by more than 10%
AccountCostRules(data) ==
    IF IsEmpty(data) THEN Ret(<<>>)
    ELSE IF ~({"ESTIMATED_COST_USD", "PREV_ESTIMATED_COST_USD"} \subseteq Columns(data))
    THEN Raise("KeyError")
    ELSE LET delta_pct == calculate_delta_percentage(
                              Iloc0(data, "ESTIMATED_COST_USD"),
                              Iloc0(data, "PREV_ESTIMATED_COST_USD"))
         IN  IF ~IsNone(delta_pct) /\ IsGreater(delta_pct, 1, 10)
             THEN Ret(<<Advisory("account_cost_increase", NoStr, <<>>,
                                 <<format_percentage(delta_pct,
                                                     DefaultDecimalsPercentage).val>>)>>)
             ELSE Ret(<<>>)

\* lines 101-105: the slow-queries rule
UserDurationRule(selected_user, avg_query_duration_sec) ==
    IF ~IsNone(avg_query_duration_sec) /\ IsGreater(avg_query_duration_sec, 300, 1)
    THEN <<Advisory("user_query_duration", selected_user, <<>>,
                    <<format_duration_seconds(avg_query_duration_sec,
                                              DefaultDecimalsDuration).val>>)>>
    ELSE <<>>

\* lines 106-110: the credits-per-query rule
UserCreditsRule(selected_user, avg_credits_per_query) ==
    IF ~IsNone(avg_credits_per_query) /\ IsGreater(avg_credits_per_query, 1, 1)
    THEN <<Advisory("user_credits_per_query", selected_user, <<>>,
                    <<Fixed(avg_credits_per_query, 2, FALSE, FALSE)>>)>>
    ELSE <<>>

\* lines 111-115: the failed-queries rule; the counts are not None here
UserFailedRule(selected_user, failed_query_count, total_query_count) ==
    IF /\ IsGreater(total_query_count, 0, 1)
       /\ ~IsNan(failed_query_count)
       /\ IsGreater(Div(failed_query_count, total_query_count), 1, 20)
    THEN <<Advisory("user_failed_queries", selected_user, <<>>,
                    <<format_percentage(Div(failed_query_count, total_query_count),
                                        DefaultDecimalsPercentage).val>>)>>
    ELSE <<>>

\* lines 95-115: the three rules on the user's summary row
UserSummaryRules(selected_user, data) ==
    IF IsEmpty(data) THEN Ret(<<>>)
    ELSE IF ~({"AVG_QUERY_DURATION_SEC", "AVG_CREDITS_PER_QUERY", "FAILED_QUERY_COUNT",
               "TOTAL_QUERY_COUNT"} \subseteq Columns(data))
    THEN Raise("KeyError")
    ELSE IF IsNone(Iloc0(data, "TOTAL_QUERY_COUNT")) THEN Raise("TypeError")
    ELSE IF /\ IsGreater(Iloc0(data, "TOTAL_QUERY_COUNT"), 0, 1)
            /\ IsNone(Iloc0(data, "FAILED_QUERY_COUNT"))
    THEN Raise("TypeError")
    ELSE Ret(UserDurationRule(selected_user, Iloc0(data, "AVG_QUERY_DURATION_SEC"))
             \o UserCreditsRule(selected_user, Iloc0(data, "AVG_CREDITS_PER_QUERY"))
             \o UserFailedRule(selected_user, Iloc0(data, "FAILED_QUERY_COUNT"),
                               Iloc0(data, "TOTAL_QUERY_COUNT")))

\* lines 125-132: an advisory for every warehouse the user used that is over 20% idle
UserWarehouseRules(selected_user, data) ==
    IF IsEmpty(data) THEN Ret(<<>>)
    ELSE IF "IDLE_PERCENTAGE_ON_WH_USER_USED" \notin Columns(data) THEN Raise("KeyError")
    ELSE LET idle ==
                 SelectSeq(data, LAMBDA row :
                     /\ ~IsNone(row["IDLE_PERCENTAGE_ON_WH_USER_USED"])
                     /\ IsGreater(row["IDLE_PERCENTAGE_ON_WH_USER_USED"], 20, 1))
         IN  IF idle # <<>> /\ "WAREHOUSE_NAME" \notin Columns(data) THEN Raise("KeyError")
             ELSE Ret([i \in 1..Len(idle) |->
                         Advisory("user_warehouse_idle", selected_user,
                                  <<idle[i]["WAREHOUSE_NAME"]>>,
                                  <<IdleText(idle[i]["IDLE_PERCENTAGE_ON_WH_USER_USED"])>>)])

\* an idle rule that takes 20% idle as high already
WarehouseIdleRule_inclusive(warehouse, idle_percentage, auto_suspend_setting) ==
    IF IsNone(idle_percentage) \/ IsNan(idle_percentage) \/ IsLess(idle_percentage, 20, 1)
    THEN Ret(<<>>)
    ELSE IF IsNone(auto_suspend_setting) THEN Raise("TypeError")
    ELSE IF IsGreater(auto_suspend_setting, 60 * 5, 1)
    THEN Ret(<<Advisory("warehouse_idle", warehouse, <<>>,
                        <<IdleText(idle_percentage),
                          format_duration_seconds(auto_suspend_setting,
                                                  DefaultDecimalsDuration).val>>)>>)
    ELSE Ret(<<>>)

\* lines 155-160: the idle-time / auto-suspend rule
WarehouseIdleRule(warehouse, idle_percentage, auto_suspend_setting) ==
    IF IsNone(idle_percentage) \/ ~IsGreater(idle_percentage, 20, 1) THEN Ret(<<>>)
    ELSE IF IsNone(auto_suspend_setting) THEN Raise("TypeError")
    ELSE IF IsGreater(auto_suspend_setting, 60 * 5, 1)
    THEN Ret(<<Advisory("warehouse_idle", warehouse, <<>>,
                        <<IdleText(idle_percentage),
                          format_duration_seconds(auto_suspend_setting,
                                                  DefaultDecimalsDuration).val>>)>>)
    ELSE Ret(<<>>)

\* lines 170-177: the queued-overload rule, over 3600 * 0.5 seconds in total
WarehouseQueueRule(warehouse, data) ==
    IF IsEmpty(data) THEN Ret(<<>>)
    ELSE IF "TOTAL_QUEUED_OVERLOAD_TIME_SEC" \notin Columns(data) THEN Raise("KeyError")
    ELSE LET total_queued_time == SumFrom(data, "TOTAL_QUEUED_OVERLOAD_TIME_SEC", 1)
         IN  IF IsGreater(total_queued_time, 1800, 1)
             THEN Ret(<<Advisory("warehouse_queued", warehouse, <<>>,
                                 <<format_duration_seconds(total_queued_time,
                                                           DefaultDecimalsDuration).val>>)>>)
             ELSE Ret(<<>>)

\* lines 181-185: the low-usage rule, under (end_date - start_date).days * 60 * 0.1
\* active minutes on a warehouse that is not of the smallest sizes
WarehouseSizeRule(warehouse, total_active_minutes, warehouse_size, start, end) ==
    IF IsNone(total_active_minutes) THEN Raise("TypeError")
    ELSE IF /\ IsLess(total_active_minutes, (end - start) * 6, 1)
            /\ warehouse_size \notin {"X-SMALL", "SMALL"}
    THEN Ret(<<Advisory("warehouse_low_usage", warehouse, <<warehouse_size>>,
                        <<PyStr(total_active_minutes)>>)>>)
    ELSE Ret(<<>>)

\* lines 38-59: the warehouse summary of the whole account and its rule
AccountIdleBlock(start, end, outcome) ==
    LET fetches == <<Fetch("WAREHOUSE_SUMMARY_METRICS",
                           With(DateParams(start, end), "selected_warehouse_name", None),
                           outcome)>>
        rules == AccountIdleRules(outcome.rows)
    IN  IF outcome.err
        THEN Block("none", <<>>, <<WarningBox("no_warehouse_summary")>>, fetches)
        ELSE Block(rules.exc, rules.val, <<>>, fetches)

\* lines 62-80: the cost overview and its rule
AccountCostBlock(start, end, outcome) ==
    LET fetches == <<Fetch("TOTAL_COST_AND_CREDITS_OVERVIEW", PeriodParams(start, end),
                           outcome)>>
        rules == AccountCostRules(outcome.rows)
    IN  IF outcome.err
        THEN Block("none", <<>>, <<WarningBox("no_cost_overview")>>, fetches)
        ELSE Block(rules.exc, rules.val, <<>>, fetches)

\* a user block that drops what it had appended when the second fetch fails
UserBlock_forgetful(selected_user, start, end, summary, utilization) ==
    LET first == Fetch("USER_360_SUMMARY_METRICS",
                       With(PeriodParams(start, end), "selected_user_name", selected_user),
                       summary)
        second == Fetch("USER_WAREHOUSE_UTILIZATION_OVERVIEW",
                        With(DateParams(start, end), "selected_user_name", selected_user),
                        utilization)
        on_summary == UserSummaryRules(selected_user, summary.rows)
        on_warehouses == UserWarehouseRules(selected_user, utilization.rows)
    IN  IF summary.err
        THEN Block("none", <<>>, <<WarningBox("no_user_data")>>, <<first>>)
        ELSE IF on_summary.exc # "none" THEN Block(on_summary.exc, <<>>, <<>>, <<first>>)
        ELSE IF utilization.err
        THEN Block("none", <<>>, <<WarningBox("no_user_data")>>, <<first, second>>)
        ELSE IF on_warehouses.exc # "none"
        THEN Block(on_warehouses.exc, on_summary.val, <<>>, <<first, second>>)
        ELSE Block("none", on_summary.val \o on_warehouses.val, <<>>, <<first, second>>)

\* lines 85-135: the one try block of the user's rules; what was appended before
\* a fetch fails stays in the list
UserBlock(selected_user, start, end, summary, utilization) ==
    LET first == Fetch("USER_360_SUMMARY_METRICS",
                       With(PeriodParams(start, end), "selected_user_name", selected_user),
                       summary)
        second == Fetch("USER_WAREHOUSE_UTILIZATION_OVERVIEW",
                        With(DateParams(start, end), "selected_user_name", selected_user),
                        utilization)
        on_summary == UserSummaryRules(selected_user, summary.rows)
        on_warehouses == UserWarehouseRules(selected_user, utilization.rows)
    IN  IF summary.err
        THEN Block("none", <<>>, <<WarningBox("no_user_data")>>, <<first>>)
        ELSE IF on_summary.exc # "none" THEN Block(on_summary.exc, <<>>, <<>>, <<first>>)
        ELSE IF utilization.err
        THEN Block("none", on_summary.val, <<WarningBox("no_user_data")>>,
                   <<first, second>>)
        ELSE IF on_warehouses.exc # "none"
        THEN Block(on_warehouses.exc, on_summary.val, <<>>, <<first, second>>)
        ELSE Block("none", on_summary.val \o on_warehouses.val, <<>>, <<first, second>>)

\* lines 139-189: the one try block of the warehouse's rules; the queue is fetched
\* only when the summary has a row
WarehouseBlock(warehouse, start, end, summary, queued) ==
    LET first == Fetch("WAREHOUSE_SUMMARY_METRICS",
                       With(PeriodParams(start, end), "selected_warehouse_name",
                            warehouse),
                       summary)
        second == Fetch("WAREHOUSE_QUEUED_OVERLOAD_TIME_TREND",
                        With(DateParams(start, end), "selected_warehouse_name",
                             warehouse),
                        queued)
        data == summary.rows
        on_idle == WarehouseIdleRule(warehouse, Iloc0(data, "IDLE_PERCENTAGE"),
                                     Iloc0(data, "AUTO_SUSPEND"))
        on_queue == WarehouseQueueRule(warehouse, queued.rows)
        on_size == WarehouseSizeRule(warehouse, Iloc0(data, "ACTIVE_MINUTES"),
                                     Iloc0(data, "SIZE"), start, end)
    IN  IF summary.err
        THEN Block("none", <<>>, <<WarningBox("no_warehouse_data")>>, <<first>>)
        ELSE IF IsEmpty(data) THEN Block("none", <<>>, <<>>, <<first>>)
        ELSE IF ~({"IDLE_PERCENTAGE", "AUTO_SUSPEND", "SIZE", "ACTIVE_MINUTES"}
                      \subseteq Columns(data))
        THEN Block("KeyError", <<>>, <<>>, <<first>>)
        ELSE IF on_idle.exc # "none" THEN Block(on_idle.exc, <<>>, <<>>, <<first>>)
        ELSE IF queued.err
        THEN Block("none", on_idle.val, <<WarningBox("no_warehouse_data")>>,
                   <<first, second>>)
        ELSE IF on_queue.exc # "none"
        THEN Block(on_queue.exc, on_idle.val, <<>>, <<first, second>>)
        ELSE IF on_size.exc # "none"
        THEN Block(on_size.exc, on_idle.val \o on_queue.val, <<>>, <<first, second>>)
        ELSE Block("none", on_idle.val \o on_queue.val \o on_size.val, <<>>,
                   <<first, second>>)

\* an account scope that does not look at the selection
AccountScope_always(user, warehouse) == TRUE

\* line 36: `not selected_user and not selected_warehouse` (None and "" are falsy)
AccountScope(user, warehouse) == user = NoStr /\ warehouse = NoStr

\* a block whose condition on the selection does not hold
Skipped == Block("none", <<>>, <<>>, <<>>)

\* a return that hands the list back as it is
ReturnedRecommendations_as_is(recs) == recs

\* lines 191-194
ReturnedRecommendations(recs) == IF recs = <<>> THEN <<NoRecommendations>> ELSE recs

----------------------------------------------------------------------------
(* insights/recommendations.py: display_recommendations_section *)

\* the names bound in the module: its imports (lines 3-11) and its two functions
RecommendationsNames ==
    {"st", "pd", "date", "List", "Dict", "Any", "Optional", "DataFetcher",
     "DataFetchError", "display_error_box", "display_warning_box", "helpers",
     "generate_finops_recommendations", "display_recommendations_section"}

Bullet(rec) == [kind |-> "markdown", label |-> "bullet", rec |-> rec]
NoRecommendationsInfo == [kind |-> "info", label |-> "no_recommendations"]

\* display_recommendations_section, lines 215-225, given what
\* generate_finops_recommendations does: the name of line 215 is looked up first
display_recommendations_section(generated) ==
    IF "display_section_header" \notin RecommendationsNames
    THEN [out |-> Raise("NameError"), ui |-> <<>>, generate_calls |-> 0]
    ELSE IF generated.exc # "none"
    THEN [out |-> Raise(generated.exc), ui |-> <<Header>>, generate_calls |-> 1]
    ELSE [out |-> Ret(None),
          ui |-> <<Header>> \o
                 (IF generated.val # <<>>
                  THEN [i \in 1..Len(generated.val) |-> Bullet(generated.val[i])]
                  ELSE <<NoRecommendationsInfo>>),
          generate_calls |-> 1]

----------------------------------------------------------------------------
(* ui/base_components.py: date_range_selector *)

\* models/dashboard_configs.py, lines 21-27
DATE_RANGE_OPTIONS ==
    [o \in {"Last 7 Days", "Last 30 Days", "Last 90 Days", "Last 1 Year",
            "Custom Range"} |->
        CASE o = "Last 7 Days" -> Int64(7)
          [] o = "Last 30 Days" -> Int64(30)
          [] o = "Last 90 Days" -> Int64(90)
          [] o = "Last 1 Year" -> Int64(365)
          [] o = "Custom Range" -> None]
\* list(DATE_RANGE_OPTIONS.keys())
DateRangeKeys ==
    <<"Last 7 Days", "Last 30 Days", "Last 90 Days", "Last 1 Year", "Custom Range">>

\* f"Last {default_days} Days", where that is a key of DATE_RANGE_OPTIONS (else NoStr)
LastDaysKey(default_days) ==
    CASE default_days = 7 -> "Last 7 Days"
      [] default_days = 30 -> "Last 30 Days"
      [] default_days = 90 -> "Last 90 Days"
      [] OTHER -> NoStr

\* lines 46-51: what the select box gives: the choice made, or the preselected entry
SelectedOption(default_days, choice) ==
    IF choice # NoStr THEN choice
    ELSE IF LastDaysKey(default_days) # NoStr THEN LastDaysKey(default_days)
    ELSE DateRangeKeys[1]

\* st.error(...), and the st.info(...) that shows the range
StError(why) == [kind |-> "error", why |-> why]
ShowingInfo(start, end) == [kind |-> "info", label |-> "showing", start |-> start,
                            end |-> end]

\* a selector that hands the custom dates back as they were picked
date_range_selector_as_picked(today, default_days, choice, picked_start, picked_end) ==
    LET selected_option == SelectedOption(default_days, choice)
        days == DATE_RANGE_OPTIONS[selected_option]
    IN  IF ~IsNone(days)
        THEN [dates |-> <<today - (days.n - 1), today>>,
              ui |-> <<Markdown("Select Date Range"),
                       ShowingInfo(today - (days.n - 1), today)>>]
        ELSE [dates |-> <<picked_start, picked_end>>,
              ui |-> <<Markdown("Select Date Range"),
                       ShowingInfo(picked_start, picked_end)>>]

\* lines 29-83; picked_start and picked_end are what the two date inputs give
date_range_selector(today, default_days, choice, picked_start, picked_end) ==
    LET default_end_date == today
        default_start_date == default_end_date - (default_days - 1)
        selected_option == SelectedOption(default_days, choice)
        days == DATE_RANGE_OPTIONS[selected_option]
    IN  IF ~IsNone(days)
        THEN [dates |-> <<default_end_date - (days.n - 1), default_end_date>>,
              ui |-> <<Markdown("Select Date Range"),
                       ShowingInfo(default_end_date - (days.n - 1), default_end_date)>>]
        ELSE IF picked_start > picked_end
        THEN [dates |-> <<default_start_date, default_end_date>>,
              ui |-> <<Markdown("Select Date Range"), StError("end_before_start"),
                       ShowingInfo(default_start_date, default_end_date)>>]
        ELSE [dates |-> <<picked_start, picked_end>>,
              ui |-> <<Markdown("Select Date Range"),
                       ShowingInfo(picked_start, picked_end)>>]

----------------------------------------------------------------------------
(* core/data_fetcher.py: DataFetcher.execute_query *)

\* the keys of core/query_store.py's SQL_QUERIES
SQL_QUERIES ==
    {"TOTAL_COST_AND_CREDITS_OVERVIEW", "DAILY_CREDIT_CONSUMPTION_TREND",
     "COST_BY_SERVICE_TYPE", "COST_BY_WAREHOUSE_TYPE", "TOP_10_WAREHOUSES_BY_COST",
     "TOP_10_USERS_BY_COST", "LIST_ACTIVE_USERS_BY_COST", "USER_360_SUMMARY_METRICS",
     "USER_DAILY_CREDIT_CONSUMPTION", "USER_WAREHOUSE_COST_BREAKDOWN",
     "USER_ROLE_COST_BREAKDOWN", "USER_QUERY_TYPE_DISTRIBUTION",
     "USER_TOP_EXPENSIVE_QUERIES", "USER_TOP_LONG_RUNNING_QUERIES",
     "USER_WAREHOUSE_UTILIZATION_OVERVIEW", "WAREHOUSE_SUMMARY_METRICS",
     "WAREHOUSE_DAILY_CREDIT_CONSUMPTION", "WAREHOUSE_QUERY_COMPLETION_STATUS",
     "WAREHOUSE_TOP_USERS_BY_COST", "WAREHOUSE_TOP_ROLES_BY_COST",
     "WAREHOUSE_QUEUED_OVERLOAD_TIME_TREND", "LIST_ACTIVE_WAREHOUSES_BY_COST"}

\* what self._session.sql(...).collect(...) and pd.DataFrame(...) do: an exception
\* (its class, "none" for none) or the rows
SessionRaised(cls) == [raised |-> cls, rows |-> <<>>]
SessionRows(rows) == [raised |-> "none", rows |-> rows]

\* the outcome of execute_query: the exception and its cause, the table, whether
\* the session was used and the parameters that were bound
Executed(exc, cause, rows, session_used, bound) ==
    [exc |-> exc, cause |-> cause, val |-> rows, session_used |-> session_used,
     bound |-> bound]

\* an execute_query that lets the session's exception through
execute_query_unwrapped(query_id, params, cached, session_call) ==
    IF cached.hit THEN Executed("none", NoStr, cached.rows, FALSE, <<>>)
    ELSE IF query_id \notin SQL_QUERIES
    THEN Executed("DataFetchError", "not_found", <<>>, FALSE, <<>>)
    ELSE Executed(session_call.raised, session_call.raised, session_call.rows, TRUE,
                  IF IsNone(params) THEN <<>> ELSE params)

\* lines 32-63; `cached` is what st.cache_data holds for these arguments (line 32)
execute_query(query_id, params, cached, session_call) ==
    IF cached.hit THEN Executed("none", NoStr, cached.rows, FALSE, <<>>)
    ELSE IF query_id \notin SQL_QUERIES
    THEN Executed("DataFetchError", "not_found", <<>>, FALSE, <<>>)
    ELSE IF session_call.raised # "none"
    THEN Executed("DataFetchError", session_call.raised, <<>>, TRUE,
                  IF IsNone(params) THEN <<>> ELSE params)
    ELSE Executed("none", NoStr, session_call.rows, TRUE,
                  IF IsNone(params) THEN <<>> ELSE params)

----------------------------------------------------------------------------
(* pages/1_Overview.py and pages/2_User_360.py: the top of a page *)

\* st.header(...), line 14
PageHeader(page) == [kind |-> "header", label |-> page]

\* a guard that takes whatever is stored under "data_fetcher" for a DataFetcher
SessionReady_unchecked(found) == found # "absent"

\* line 17: "data_fetcher" is in st.session_state and is a DataFetcher
SessionReady(found) == found # "absent" /\ found = "DataFetcher"

\* lines 14-19: what the top of the page shows
PageTop(page, found) ==
    IF SessionReady(found) THEN <<PageHeader(page)>>
    ELSE <<PageHeader(page), ErrorBox(page, "no_session")>>

----------------------------------------------------------------------------
(* Inputs *)

Dates == DateBase..(DateBase + MaxSpan)
DecimalPlaces == 0..MaxDecimals

\* 59.4, 59.5 and 60.5 are 297/5, 119/2 and 121/2
DurationInputs == {None, NaN, Float(0, 1), Float(297, 5), Float(119, 2), Int64(60),
                   Float(121, 2), Float(95, 1), Float(3600, 1), Float(3661, 1),
                   Float(86399, 1), Float(86400, 1), Float(90061, 1), Float(-5, 1)}

\* 1 GiB, 1.5 GiB and 1.5 MiB among them
ByteInputs == {None, NaN, Float(0, 1), Int64(1073741824), Float(1610612736, 1),
               Int64(1572864)}
UnitInputs == {<<"K", "B">>, <<"m", "b">>, <<"G", "B">>, <<"g", "b">>, <<"T", "b">>,
               <<"X", "B">>, <<"B">>, <<>>}

NumberInputs == {None, NaN, Float(0, 1), Float(1, 8), Float(3, 20), Float(-1, 4),
                 Float(35, 1), Int64(1000), Float(2469135, 2)}
CurrencySymbols == {<<"$">>, <<"E", "U", "R", " ">>}

DeltaInputs == {None, NaN, Float(0, 1), Int64(0), Float(5, 1), Float(800, 1),
                Int64(1000), Float(-4, 1), Float(1, 3)}

\* the first-row values execute_query may give a metric's columns: a NULL is None
\* in an object column and NaN in a float column
MetricValues == {None, NaN, Float(0, 1), Float(800, 1), Int64(1000)}
CountValues == {None, NaN, Int64(0), Int64(5)}
\* IDLE_PERCENTAGE is IDLE_MINUTES * 100.0 / NULLIF(TOTAL_MINUTES_ON, 0): 35 is 35%
PercentValues == {None, Float(35, 1), Float(5, 1)}
ValuesOf(col) ==
    IF col \in {"TOTAL_QUERY_COUNT", "FAILED_QUERY_COUNT"} THEN CountValues
    ELSE IF col = "IDLE_PERCENTAGE" THEN PercentValues
    ELSE IF col = "FAILED_QUERY_RATE" THEN {None, Float(1, 2)}
    ELSE MetricValues

SectionKeys == {"OVERVIEW_METRICS", "USER_360_METRICS", "WAREHOUSE_METRICS",
                "UNKNOWN_METRICS", "DRAFT_METRICS"}
Entities == {NoStr, "ALICE"}
ColumnCounts == {2, 3}

\* the columns of the result that the loop body for `config` reads
ColumnsRead(key, config) ==
    ({Get(config, "value_col", NoStr), Get(config, "delta_col", NoStr)} \ {NoStr})
    \cup (IF Get(config, "label", NoStr) = "Failed Query Rate" /\ key = "USER_360_METRICS"
          THEN {"TOTAL_QUERY_COUNT", "FAILED_QUERY_COUNT"} ELSE {})

\* execute_query's outcomes: DataFetchError, no row, or one row over some columns
FetchOutcomes(cols) ==
    {FetchError, Fetched(<<>>)}
    \cup {Fetched(<<row>>) :
            row \in UNION {{r \in [S -> MetricValues \cup CountValues \cup PercentValues] :
                               \A c \in S : r[c] \in ValuesOf(c)} : S \in SUBSET cols}}

\* the values of a chart's value column, row by row, and the categories of its rows
ChartSeries == {<<10, 20, 70>>, <<0, 0>>, <<0>>, <<5>>, <<3, 1>>}
CategoryNames == <<"A", "B", "C">>
ChartSectionKeys == {"OVERVIEW_CHARTS", "USER_360_CHARTS", "WAREHOUSE_INSIGHTS_CHARTS",
                     "UNKNOWN_CHARTS", "DRAFT_CHARTS"}

\* the columns of the result that rendering the chart of `config` reads
ChartColumnsRead(config) ==
    {Get(config, c, NoStr) : c \in IF Get(config, "chart_type", NoStr) = "pie"
                                   THEN {"name_col", "value_col"}
                                   ELSE {"x_col", "y_col"}} \ {NoStr}
\* of those, the column holding the numbers
ChartValueColumn(config) ==
    IF Get(config, "chart_type", NoStr) = "pie" THEN Get(config, "value_col", NoStr)
    ELSE Get(config, "y_col", NoStr)

\* execute_query's outcomes for a chart: DataFetchError, no row, or some rows over
\* some of the columns
ChartOutcomes(config) ==
    {FetchError, Fetched(<<>>)}
    \cup {Fetched([i \in 1..Len(series) |->
                      [c \in S |-> IF c = ChartValueColumn(config) THEN Int64(series[i])
                                   ELSE CategoryNames[i]]]) :
            S \in SUBSET ChartColumnsRead(config), series \in ChartSeries}

\* formatter_func as a configuration may give it: absent, functions of helpers,
\* a name helpers does not have, and a name of helpers that is no function
FormatterNames == {NoStr, "format_bytes", "format_percentage",
                   "calculate_delta_percentage", "format_nothing", "math"}
FormatValues == {FmtInt, FmtPct, FmtGB}
CardLabel == "Card"

\* the warehouse the recommendations may be asked for
Warehouses == {NoStr, "WH1"}

\* a row of WAREHOUSE_SUMMARY_METRICS, as far as the rules read it
WarehouseRow(name, size, auto_suspend, credits, active, idle) ==
    [c \in {"WAREHOUSE_NAME", "SIZE", "AUTO_SUSPEND", "TOTAL_CREDITS_USED",
            "ACTIVE_MINUTES", "IDLE_PERCENTAGE"} |->
        CASE c = "WAREHOUSE_NAME" -> name
          [] c = "SIZE" -> size
          [] c = "AUTO_SUSPEND" -> auto_suspend
          [] c = "TOTAL_CREDITS_USED" -> credits
          [] c = "ACTIVE_MINUTES" -> active
          [] c = "IDLE_PERCENTAGE" -> idle]

\* a result without one of its columns
Without(data, col) ==
    [i \in 1..Len(data) |-> [c \in DOMAIN data[i] \ {col} |-> data[i][c]]]

\* WAREHOUSE_SUMMARY_METRICS of the account: one row for each warehouse
AccountWarehouseOutcomes ==
    LET busy == <<WarehouseRow("WH1", "LARGE", Int64(600), Float(10, 1), Int64(600),
                               Float(35, 1)),
                  WarehouseRow("WH2", "SMALL", Int64(60), Float(10, 1), Int64(600),
                               Float(20, 1)),
                  WarehouseRow("WH3", "MEDIUM", Int64(60), Float(3, 1), Int64(30),
                               Float(41, 2))>>
        unused == <<WarehouseRow("WH1", "LARGE", Int64(600), Float(0, 1), Int64(0),
                                 Float(35, 1))>>
        unknown == <<WarehouseRow("WH1", "LARGE", Int64(600), Float(10, 1), Int64(0),
                                  None)>>
    IN  {FetchError, Fetched(<<>>), Fetched(busy), Fetched(unused), Fetched(unknown),
         Fetched(Without(busy, "WAREHOUSE_NAME")),
         Fetched(Without(unused, "WAREHOUSE_NAME")),
         Fetched(Without(busy, "IDLE_PERCENTAGE"))}

\* TOTAL_COST_AND_CREDITS_OVERVIEW: the cost now and in the previous period
CostRow(now, before) ==
    [c \in {"ESTIMATED_COST_USD", "PREV_ESTIMATED_COST_USD"} |->
        IF c = "ESTIMATED_COST_USD" THEN now ELSE before]
CostOutcomes ==
    {FetchError, Fetched(<<>>),
     Fetched(<<CostRow(Float(110, 1), Float(100, 1))>>),
     Fetched(<<CostRow(Float(111, 1), Float(100, 1))>>),
     Fetched(<<CostRow(Float(100, 1), Float(0, 1))>>),
     Fetched(<<CostRow(Float(100, 1), None)>>),
     Fetched(Without(<<CostRow(Float(111, 1), Float(100, 1))>>,
                     "PREV_ESTIMATED_COST_USD"))}

\* USER_360_SUMMARY_METRICS
UserRow(duration, credits, failed, total) ==
    [c \in {"AVG_QUERY_DURATION_SEC", "AVG_CREDITS_PER_QUERY", "FAILED_QUERY_COUNT",
            "TOTAL_QUERY_COUNT"} |->
        CASE c = "AVG_QUERY_DURATION_SEC" -> duration
          [] c = "AVG_CREDITS_PER_QUERY" -> credits
          [] c = "FAILED_QUERY_COUNT" -> failed
          [] c = "TOTAL_QUERY_COUNT" -> total]
UserSummaryOutcomes ==
    {FetchError, Fetched(<<>>),
     Fetched(<<UserRow(Float(300, 1), Float(1, 1), Int64(1), Int64(20))>>),
     Fetched(<<UserRow(Float(301, 1), Float(2, 1), Int64(3), Int64(20))>>),
     Fetched(<<UserRow(None, None, Int64(0), Int64(0))>>),
     Fetched(<<UserRow(NaN, Float(3, 2), Int64(1), Int64(20))>>),
     Fetched(Without(<<UserRow(Float(301, 1), Float(2, 1), Int64(3), Int64(20))>>,
                     "FAILED_QUERY_COUNT"))}

\* USER_WAREHOUSE_UTILIZATION_OVERVIEW: one row for each warehouse the user used
UtilizationRow(name, idle) ==
    [c \in {"WAREHOUSE_NAME", "IDLE_PERCENTAGE_ON_WH_USER_USED"} |->
        IF c = "WAREHOUSE_NAME" THEN name ELSE idle]
UtilizationOutcomes ==
    LET used == <<UtilizationRow("WH1", Float(35, 1)), UtilizationRow("WH2", Float(20, 1))>>
    IN  {FetchError, Fetched(<<>>), Fetched(used),
         Fetched(<<UtilizationRow("WH1", None)>>),
         Fetched(Without(used, "WAREHOUSE_NAME")),
         Fetched(Without(used, "IDLE_PERCENTAGE_ON_WH_USER_USED"))}

\* WAREHOUSE_SUMMARY_METRICS of the selected warehouse: 35% or 5% idle, an
\* auto-suspend of 600 s or of the 300 s of the threshold, among others
WarehouseSummaryOutcomes ==
    {FetchError, Fetched(<<>>),
     Fetched(<<WarehouseRow("WH1", "LARGE", Int64(600), Float(10, 1), Int64(600),
                            Float(35, 1))>>),
     Fetched(<<WarehouseRow("WH1", "LARGE", Int64(300), Float(10, 1), Int64(0),
                            Float(35, 1))>>),
     Fetched(<<WarehouseRow("WH1", "SMALL", Int64(600), Float(10, 1), Int64(0),
                            Float(20, 1))>>),
     Fetched(<<WarehouseRow("WH1", "X-SMALL", Int64(600), Float(10, 1), Int64(600),
                            Float(5, 1))>>),
     Fetched(<<WarehouseRow("WH1", "MEDIUM", Int64(301), Float(10, 1), Int64(5),
                            Float(41, 2))>>),
     Fetched(<<WarehouseRow("WH1", "LARGE", Int64(600), Float(10, 1), Int64(600),
                            None)>>),
     Fetched(<<WarehouseRow("WH1", "LARGE", NaN, Float(10, 1), Int64(600),
                            Float(35, 1))>>),
     Fetched(<<WarehouseRow("WH1", "LARGE", None, Float(10, 1), Int64(600),
                            Float(35, 1))>>),
     Fetched(Without(<<WarehouseRow("WH1", "LARGE", Int64(600), Float(10, 1),
                                    Int64(600), Float(35, 1))>>, "AUTO_SUSPEND"))}

\* WAREHOUSE_QUEUED_OVERLOAD_TIME_TREND: the seconds queued, day by day
QueueRows(seconds) ==
    [i \in 1..Len(seconds) |->
        [c \in {"USAGE_DAY", "TOTAL_QUEUED_OVERLOAD_TIME_SEC"} |->
            IF c = "USAGE_DAY" THEN DateBase + i - 1 ELSE Int64(seconds[i])]]
QueueOutcomes ==
    {FetchError, Fetched(<<>>), Fetched(QueueRows(<<1800>>)),
     Fetched(QueueRows(<<1000, 801>>)),
     Fetched(Without(QueueRows(<<1800>>), "TOTAL_QUEUED_OVERLOAD_TIME_SEC"))}

\* default_days as a page may pass it (the pages pass nothing: 30), and what the
\* select box was set to (NoStr: not touched yet)
DefaultDaysChoices == {1, 7, 30}
OptionChoices == {NoStr} \cup DOMAIN DATE_RANGE_OPTIONS

\* the two pages, and what st.session_state may hold under "data_fetcher":
\* nothing, an object that is no DataFetcher, a DataFetcher
Pages == {"Overview", "User 360"}
SessionContents == {"absent", "other", "DataFetcher"}

\* the identifiers execute_query may be given, what the session may do, and what
\* the cache may hold (only what a call has returned is cached)
QueryIds == SQL_QUERIES \cup {"UNKNOWN_QUERY", NoStr}
QueryParams == {None, DateParams(DateBase, DateBase + MaxSpan)}
ResultTables == {<<>>, <<CostRow(Float(110, 1), Float(100, 1))>>}
SessionCalls ==
    {SessionRaised(cls) : cls \in {"SnowparkSQLException", "ConnectionError", "TypeError",
                                   "KeyError"}}
    \cup {SessionRows(rows) : rows \in ResultTables}
CacheMiss == [hit |-> FALSE, rows |-> <<>>]
CacheEntries(query_id) ==
    {CacheMiss} \cup (IF query_id \in SQL_QUERIES
                      THEN {[hit |-> TRUE, rows |-> rows] : rows \in ResultTables}
                      ELSE {})

\* chart definitions over the columns X and Y, with and without sort_desc, and
\* the results they are drawn from
SortableConfigs ==
    {[chart_type |-> kind, title |-> "Sortable", x_col |-> "X", y_col |-> "Y",
      sort_desc |-> desc] : kind \in {"line", "bar"}, desc \in BOOLEAN}
SortableData ==
    {[i \in 1..Len(series) |->
         [c \in {"X", "Y"} |-> IF c = "X" THEN CategoryNames[i] ELSE Int64(series[i])]] :
        series \in ChartSeries}

\* what generate_finops_recommendations hands to display_recommendations_section
GeneratedResults ==
    {Ret(<<NoRecommendations>>),
     Ret(<<Advisory("warehouse_idle", "WH1", <<>>, <<>>),
           Advisory("warehouse_queued", "WH1", <<>>, <<>>)>>),
     Raise("KeyError")}

----------------------------------------------------------------------------
(* The state machine *)

NoCall == [fn |-> "none", args |-> <<>>, out |-> <<>>]

Init ==
    /\ call = NoCall
    /\ pc = "page_top"
    /\ session = NoStr
    /\ section_key = NoStr
    /\ start_date = DateBase
    /\ end_date = DateBase
    /\ selected_entity = NoStr
    /\ num_columns = 1
    /\ prev_dates = <<DateBase, DateBase>>
    /\ cfg_idx = 0
    /\ col_idx = 0
    /\ data_in = FetchError
    /\ query = NoQuery
    /\ card = NoCard
    /\ processed = <<>>
    /\ recommendations = <<>>
    /\ selected_warehouse = NoStr
    /\ fetched = <<>>
    /\ ui = <<>>

\* lines 12-21 of a page: the header, and the guard on the session state; without
\* a DataFetcher the error is shown and st.stop() ends the pass
PageGuard ==
    /\ pc = "page_top"
    /\ \E page \in Pages, found \in SessionContents :
          /\ session' = found
          /\ ui' = PageTop(page, found)
          /\ pc' = IF SessionReady(found) THEN "idle" ELSE "done"
    /\ UNCHANGED <<call, section_key, start_date, end_date, selected_entity,
                   num_columns, prev_dates, cfg_idx, col_idx, data_in, query, card,
                   processed, recVars>>

\* a direct call of a helper, outside any section, as the only step of a pass
\* after the guard
CallPrevPeriod ==
    /\ pc = "idle"
    /\ \E s \in Dates, e \in Dates :
          call' = [fn |-> "calculate_prev_period_dates", args |-> <<s, e>>,
                   out |-> calculate_prev_period_dates(s, e)]
    /\ pc' = "done"
    /\ UNCHANGED sectionArgs

CallDelta ==
    /\ pc = "idle"
    /\ \E c \in DeltaInputs, p \in DeltaInputs :
          call' = [fn |-> "calculate_delta_percentage", args |-> <<c, p>>,
                   out |-> calculate_delta_percentage(c, p)]
    /\ pc' = "done"
    /\ UNCHANGED sectionArgs

CallFormatCurrency ==
    /\ pc = "idle"
    /\ \E v \in NumberInputs, sym \in CurrencySymbols, dp \in DecimalPlaces :
          call' = [fn |-> "format_currency", args |-> <<v, sym, dp>>,
                   out |-> format_currency(v, sym, dp)]
    /\ pc' = "done"
    /\ UNCHANGED sectionArgs

CallFormatPercentage ==
    /\ pc = "idle"
    /\ \E v \in NumberInputs, dp \in DecimalPlaces :
          call' = [fn |-> "format_percentage", args |-> <<v, dp>>,
                   out |-> format_percentage(v, dp)]
    /\ pc' = "done"
    /\ UNCHANGED sectionArgs

CallFormatBytes ==
    /\ pc = "idle"
    /\ \E v \in ByteInputs, unit \in UnitInputs, dp \in DecimalPlaces :
          call' = [fn |-> "format_bytes", args |-> <<v, unit, dp>>,
                   out |-> format_bytes(v, unit, dp)]
    /\ pc' = "done"
    /\ UNCHANGED sectionArgs

CallFormatDuration ==
    /\ pc = "idle"
    /\ \E v \in DurationInputs, dp \in DecimalPlaces :
          call' = [fn |-> "format_duration_seconds", args |-> <<v, dp>>,
                   out |-> format_duration_seconds(v, dp)]
    /\ pc' = "done"
    /\ UNCHANGED sectionArgs

\* a direct call of render_metric_card
CallRenderMetricCard ==
    /\ pc = "idle"
    /\ \E v \in MetricValues, d \in {None, Float(800, 1)}, fv \in FormatValues,
          ff \in FormatterNames :
          call' = [fn |-> "render_metric_card", args |-> <<v, d, fv, ff>>,
                   out |-> render_metric_card(CardLabel, v, d, fv, FmtDelta, ff,
                                              APP_THEME)]
    /\ pc' = "done"
    /\ UNCHANGED sectionArgs

\* display_metric_section, lines 37-48: the header, the configuration lookup, the
\* previous period
StartMetricSection ==
    /\ pc = "idle"
    /\ \E key \in SectionKeys, s \in Dates, e \in Dates, entity \in Entities,
          n \in ColumnCounts :
          LET metric_configs == Get(ConfiguredMetrics, key, <<>>)
              found == metric_configs # <<>>
              prev == calculate_prev_period_dates(s, e)
          IN  /\ s <= e
              /\ section_key' = key
              /\ start_date' = s
              /\ end_date' = e
              /\ selected_entity' = entity
              /\ num_columns' = n
              /\ pc' = IF found THEN "metric_loop" ELSE "done"
              /\ ui' = IF found THEN <<Header>>
                       ELSE <<Header, WarningBox("no_metric_configs")>>
              /\ prev_dates' = IF found THEN prev ELSE prev_dates
              /\ call' = IF found
                         THEN [fn |-> "calculate_prev_period_dates", args |-> <<s, e>>,
                               out |-> prev]
                         ELSE call
              /\ cfg_idx' = IF found THEN 1 ELSE cfg_idx
              /\ col_idx' = 0
              /\ processed' = <<>>
              /\ UNCHANGED <<data_in, query, card, recVars, session>>

\* one iteration of the loop of display_metric_section, lines 50-118
MetricIteration ==
    /\ pc = "metric_loop"
    /\ cfg_idx <= Len(ConfiguredMetrics[section_key])
    /\ LET config == ConfiguredMetrics[section_key][cfg_idx]
       IN  \E outcome \in FetchOutcomes(ColumnsRead(section_key, config)) :
              \E body \in {MetricBody(section_key, config, start_date, end_date,
                                      prev_dates, selected_entity, outcome)} :
                  /\ data_in' = IF body.query = NoQuery THEN data_in ELSE outcome
                  /\ query' = body.query
                  /\ card' = body.card
                  /\ ui' = body.ui
                  /\ col_idx' = IF body.advance THEN (col_idx + 1) % num_columns
                                ELSE col_idx
                  /\ cfg_idx' = cfg_idx + 1
                  /\ processed' = Append(processed, Get(config, "label", "Unknown Metric"))
    /\ UNCHANGED <<call, pc, section_key, start_date, end_date, selected_entity,
                   num_columns, prev_dates, recVars, session>>

\* the loop is over: display_metric_section returns
MetricSectionReturn ==
    /\ pc = "metric_loop"
    /\ cfg_idx > Len(ConfiguredMetrics[section_key])
    /\ pc' = "done"
    /\ UNCHANGED <<call, section_key, start_date, end_date, selected_entity,
                   num_columns, prev_dates, cfg_idx, col_idx, data_in, query, card,
                   processed, recVars, session, ui>>

\* display_chart_section, lines 141-149: the header and the configuration lookup
StartChartSection ==
    /\ pc = "idle"
    /\ \E key \in ChartSectionKeys, s \in Dates, e \in Dates, entity \in Entities,
          n \in ColumnCounts :
          LET chart_configs == Get(ConfiguredCharts, key, <<>>)
              found == chart_configs # <<>>
          IN  /\ s <= e
              /\ section_key' = key
              /\ start_date' = s
              /\ end_date' = e
              /\ selected_entity' = entity
              /\ num_columns' = n
              /\ pc' = IF found THEN "chart_loop" ELSE "done"
              /\ ui' = IF found THEN <<Header>>
                       ELSE <<Header, WarningBox("no_chart_configs")>>
              /\ cfg_idx' = IF found THEN 1 ELSE cfg_idx
              /\ col_idx' = 0
              /\ processed' = <<>>
              /\ UNCHANGED <<call, prev_dates, data_in, query, card, recVars, session>>

\* one iteration of the loop of display_chart_section, lines 151-181
ChartIteration ==
    /\ pc = "chart_loop"
    /\ cfg_idx <= Len(ConfiguredCharts[section_key])
    /\ LET config == ConfiguredCharts[section_key][cfg_idx]
       IN  \E outcome \in ChartOutcomes(config) :
              \E body \in {ChartBody(section_key, config, start_date, end_date,
                                     selected_entity, outcome)} :
                  /\ data_in' = IF body.query = NoQuery THEN data_in ELSE outcome
                  /\ query' = body.query
                  /\ ui' = body.ui
                  /\ col_idx' = IF body.advance THEN (col_idx + 1) % num_columns
                                ELSE col_idx
                  /\ cfg_idx' = cfg_idx + 1
                  /\ processed' = Append(processed, Get(config, "title", "Unknown Chart"))
    /\ UNCHANGED <<call, pc, section_key, start_date, end_date, selected_entity,
                   num_columns, prev_dates, card, recVars, session>>

\* the loop is over: display_chart_section returns
ChartSectionReturn ==
    /\ pc = "chart_loop"
    /\ cfg_idx > Len(ConfiguredCharts[section_key])
    /\ pc' = "done"
    /\ UNCHANGED <<call, section_key, start_date, end_date, selected_entity,
                   num_columns, prev_dates, cfg_idx, col_idx, data_in, query, card,
                   processed, recVars, session, ui>>

\* generate_finops_recommendations is called: line 33
StartRecommendations ==
    /\ pc = "idle"
    /\ \E s \in Dates, e \in Dates, user \in Entities, warehouse \in Warehouses :
          /\ s <= e
          /\ start_date' = s
          /\ end_date' = e
          /\ selected_entity' = user
          /\ selected_warehouse' = warehouse
    /\ recommendations' = <<>>
    /\ fetched' = <<>>
    /\ ui' = <<>>
    /\ pc' = "rec_account_idle"
    /\ UNCHANGED <<call, section_key, num_columns, prev_dates, cfg_idx, col_idx,
                   data_in, query, card, processed, session>>

\* what a try block of generate_finops_recommendations does to the state: its
\* advisories are appended and the next block follows, or its exception ends the call
RecStep(block, next) ==
    /\ fetched' = block.fetches
    /\ ui' = block.warn
    /\ recommendations' = IF block.exc = "none" THEN recommendations \o block.recs
                          ELSE recommendations
    /\ pc' = IF block.exc = "none" THEN next ELSE "done"
    /\ call' = IF block.exc = "none" THEN call
               ELSE [fn |-> "generate_finops_recommendations",
                     args |-> <<start_date, end_date, selected_entity,
                                selected_warehouse>>,
                     out |-> Raise(block.exc)]
    /\ UNCHANGED <<section_key, start_date, end_date, selected_entity, num_columns,
                   prev_dates, cfg_idx, col_idx, data_in, query, card, processed,
                   selected_warehouse, session>>

\* lines 36-59: the idle warehouses of the account, when nothing is selected
RecAccountIdle ==
    /\ pc = "rec_account_idle"
    /\ IF AccountScope(selected_entity, selected_warehouse)
       THEN \E outcome \in AccountWarehouseOutcomes :
               \E block \in {AccountIdleBlock(start_date, end_date, outcome)} :
                   RecStep(block, "rec_account_cost")
       ELSE RecStep(Skipped, "rec_account_cost")

\* lines 61-80: the cost of the account against the previous period
RecAccountCost ==
    /\ pc = "rec_account_cost"
    /\ IF AccountScope(selected_entity, selected_warehouse)
       THEN \E outcome \in CostOutcomes :
               \E block \in {AccountCostBlock(start_date, end_date, outcome)} :
                   RecStep(block, "rec_user")
       ELSE RecStep(Skipped, "rec_user")

\* lines 84-135: the rules of the selected user
RecUser ==
    /\ pc = "rec_user"
    /\ IF selected_entity # NoStr
       THEN \E summary \in UserSummaryOutcomes, utilization \in UtilizationOutcomes :
               \E block \in {UserBlock(selected_entity, start_date, end_date, summary,
                                       utilization)} :
                   RecStep(block, "rec_warehouse")
       ELSE RecStep(Skipped, "rec_warehouse")

\* lines 138-189: the rules of the selected warehouse
RecWarehouse ==
    /\ pc = "rec_warehouse"
    /\ IF selected_warehouse # NoStr
       THEN \E summary \in WarehouseSummaryOutcomes, queued \in QueueOutcomes :
               \E block \in {WarehouseBlock(selected_warehouse, start_date, end_date,
                                            summary, queued)} :
                   RecStep(block, "rec_return")
       ELSE RecStep(Skipped, "rec_return")

\* lines 191-194: generate_finops_recommendations returns
RecReturn ==
    /\ pc = "rec_return"
    /\ pc' = "done"
    /\ call' = [fn |-> "generate_finops_recommendations",
                args |-> <<start_date, end_date, selected_entity, selected_warehouse>>,
                out |-> Ret(ReturnedRecommendations(recommendations))]
    /\ UNCHANGED <<section_key, start_date, end_date, selected_entity, num_columns,
                   prev_dates, cfg_idx, col_idx, data_in, query, card, processed, ui,
                   recommendations, selected_warehouse, fetched, session>>

\* a direct call of DataFetcher.execute_query
CallExecuteQuery ==
    /\ pc = "idle"
    /\ \E query_id \in QueryIds, params \in QueryParams, session_call \in SessionCalls :
          \E cached \in CacheEntries(query_id) :
              call' = [fn |-> "execute_query",
                       args |-> <<query_id, params, cached, session_call>>,
                       out |-> execute_query(query_id, params, cached, session_call)]
    /\ pc' = "done"
    /\ UNCHANGED sectionArgs

\* a page calls display_recommendations_section
CallDisplayRecommendations ==
    /\ pc = "idle"
    /\ \E s \in Dates, e \in Dates, user \in Entities, warehouse \in Warehouses,
          generated \in GeneratedResults :
          /\ s <= e
          /\ start_date' = s
          /\ end_date' = e
          /\ selected_entity' = user
          /\ selected_warehouse' = warehouse
          /\ \E shown \in {display_recommendations_section(generated)} :
                /\ call' = [fn |-> "display_recommendations_section",
                            args |-> <<s, e, user, warehouse, generated>>,
                            out |-> shown.out]
                /\ ui' = shown.ui
    /\ pc' = "done"
    /\ UNCHANGED <<section_key, num_columns, prev_dates, cfg_idx, col_idx, data_in,
                   query, card, processed, recommendations, fetched, session>>

\* a direct call of render_chart
CallRenderChart ==
    /\ pc = "idle"
    /\ \E config \in SortableConfigs, data \in SortableData :
          call' = [fn |-> "render_chart", args |-> <<data, config>>,
                   out |-> render_chart(data, config, APP_THEME)]
    /\ pc' = "done"
    /\ UNCHANGED sectionArgs

\* a page calls date_range_selector
CallDateRangeSelector ==
    /\ pc = "idle"
    /\ \E today \in Dates, default_days \in DefaultDaysChoices, choice \in OptionChoices,
          picked_start \in Dates, picked_end \in Dates :
          \E selector \in {date_range_selector(today, default_days, choice, picked_start,
                                               picked_end)} :
              /\ call' = [fn |-> "date_range_selector",
                          args |-> <<today, default_days, choice, picked_start,
                                     picked_end>>,
                          out |-> selector.dates]
              /\ ui' = selector.ui
    /\ pc' = "done"
    /\ UNCHANGED <<section_key, start_date, end_date, selected_entity, num_columns,
                   prev_dates, cfg_idx, col_idx, data_in, query, card, processed,
                   recVars, session>>

\* the page is run again from the top
Rerun ==
    /\ pc = "done"
    /\ pc' = "page_top"
    /\ session' = NoStr
    /\ section_key' = NoStr
    /\ start_date' = DateBase
    /\ end_date' = DateBase
    /\ selected_entity' = NoStr
    /\ num_columns' = 1
    /\ prev_dates' = <<DateBase, DateBase>>
    /\ cfg_idx' = 0
    /\ col_idx' = 0
    /\ data_in' = FetchError
    /\ query' = NoQuery
    /\ card' = NoCard
    /\ processed' = <<>>
    /\ recommendations' = <<>>
    /\ selected_warehouse' = NoStr
    /\ fetched' = <<>>
    /\ ui' = <<>>
    /\ call' = NoCall

Next ==
    \/ PageGuard
    \/ CallPrevPeriod
    \/ CallDelta
    \/ CallFormatCurrency
    \/ CallFormatPercentage
    \/ CallFormatBytes
    \/ CallFormatDuration
    \/ CallRenderMetricCard
    \/ StartMetricSection
    \/ MetricIteration
    \/ MetricSectionReturn
    \/ StartChartSection
    \/ ChartIteration
    \/ ChartSectionReturn
    \/ StartRecommendations
    \/ RecAccountIdle
    \/ RecAccountCost
    \/ RecUser
    \/ RecWarehouse
    \/ RecReturn
    \/ CallDateRangeSelector
    \/ CallExecuteQuery
    \/ CallRenderChart
    \/ CallDisplayRecommendations
    \/ Rerun

Spec == Init /\ [][Next]_vars

----------------------------------------------------------------------------
(* Reading a rendered duration back: "1h 0m 0.0s" is the components 1 h, 0 m, 0 s *)

\* the pieces of str between the occurrences of sep: str.split(sep)
RECURSIVE Split(_, _)
Split(str, sep) ==
    LET i == IndexOf(str, sep)
    IN  IF i = 0 THEN <<str>>
        ELSE <<SubSeq(str, 1, i - 1)>> \o Split(SubSeq(str, i + 1, Len(str)), sep)

\* the number a run of digits denotes
RECURSIVE DigitsValue(_)
DigitsValue(ds) ==
    IF ds = <<>> THEN 0
    ELSE 10 * DigitsValue(SubSeq(ds, 1, Len(ds) - 1)) + DigitVal(ds[Len(ds)])

\* a component such as "12m" or "-5.0s": its unit, its whole part and its fraction digits
Component(tok) ==
    LET body == SubSeq(tok, 1, Len(tok) - 1)
        neg == body # <<>> /\ body[1] = "-"
        mag == IF neg THEN SubSeq(body, 2, Len(body)) ELSE body
        dot == IndexOf(mag, ".")
        whole == IF dot = 0 THEN mag ELSE SubSeq(mag, 1, dot - 1)
        frac == IF dot = 0 THEN <<>> ELSE SubSeq(mag, dot + 1, Len(mag))
    IN  [unit |-> tok[Len(tok)],
         whole |-> IF neg THEN -DigitsValue(whole) ELSE DigitsValue(whole),
         frac |-> frac, dotted |-> dot # 0]

Components(str) == LET toks == Split(str, " ")
                   IN  [i \in 1..Len(toks) |-> Component(toks[i])]

UnitSeconds(u) == CASE u = "d" -> 86400 [] u = "h" -> 3600 [] u = "m" -> 60 [] u = "s" -> 1

RECURSIVE TotalSeconds(_)
TotalSeconds(cs) ==
    IF cs = <<>> THEN 0
    ELSE cs[1].whole * UnitSeconds(cs[1].unit) + TotalSeconds(Tail(cs))

UnitsOf(cs) == [i \in 1..Len(cs) |-> cs[i].unit]

----------------------------------------------------------------------------
(* Claims about the helpers and the period calculator *)

CalledPrevPeriod == call.fn = "calculate_prev_period_dates"
CalledDelta == call.fn = "calculate_delta_percentage"
CalledDuration == call.fn = "format_duration_seconds"
CalledBytes == call.fn = "format_bytes"

\* C1: for every start <= end the previous period ends the day before start, spans
\* as many days as the current one, and lies strictly before start.
C1_PrevPeriodAdjacent ==
    (CalledPrevPeriod /\ call.args[1] <= call.args[2]) =>
        /\ call.out[2] = call.args[1] - 1
        /\ call.out[2] - call.out[1] = call.args[2] - call.args[1]
        /\ call.out[2] < call.args[1]

C1_Witness ==
    /\ CalledPrevPeriod
    /\ pc = "done"
    /\ call.args[1] < call.args[2]
    /\ call.out[2] + 1 = call.args[1]

\* C2: calculate_delta_percentage is undefined (None) when an input is missing; with
\* previous = 0 it is 0.0 for current = 0 and undefined otherwise; in every other
\* case it is (current - previous) / previous, hence 0.0 for equal non-zero inputs.
C2_DeltaReferenceRule ==
    CalledDelta =>
        LET c == call.args[1]
            p == call.args[2]
            out == call.out
        IN  IF IsMissing(c) \/ IsMissing(p) THEN out = None
            ELSE IF p.n = 0 THEN (IF c.n = 0 THEN out # None /\ out.n = 0 ELSE out = None)
            ELSE /\ out # None
                 /\ out.n * (c.d * p.n) = out.d * (c.n * p.d - p.n * c.d)
                 /\ (NumEq(c, p) => out.n = 0)

C2_Witness ==
    /\ CalledDelta
    /\ call.args = <<Int64(1000), Float(800, 1)>>
    /\ call.out = Float(1, 4)

\* C3: with the default of 1 decimal place an input under one minute keeps its
\* sub-second fraction (59.4 gives "59.4s"), the seconds carry no fractional digits
\* once a higher unit is present (60 gives "1m 0s", 3661 gives "1h 1m 1s"), and a
\* missing input gives "N/A".
C3_DurationExamples ==
    (CalledDuration /\ call.args[2] = DefaultDecimalsDuration) =>
        LET v == call.args[1]
            out == call.out.val
        IN  /\ call.out.exc = "none"
            /\ IsMissing(v) => out = NA
            /\ v = Float(297, 5) => out = <<"5", "9", ".", "4", "s">>
            /\ v = Int64(60) => out = <<"1", "m", " ", "0", "s">>
            /\ v = Float(3661, 1) =>
                  out = <<"1", "h", " ", "1", "m", " ", "1", "s">>
            /\ (~IsMissing(v) /\ Len(Split(out, " ")) > 1) =>
                  ~Component(Split(out, " ")[Len(Split(out, " "))]).dotted

\* C4 as stated: after rounding to the nearest second, a days, hours or minutes
\* component is rendered only when its value is non-zero.
C4_OnlyNonZeroUnits ==
    (CalledDuration /\ ~IsMissing(call.args[1])) =>
        LET cs == Components(call.out.val)
        IN  \A i \in 1..Len(cs) : cs[i].unit \in {"d", "h", "m"} => cs[i].whole # 0

\* C4 as amended: the rendered components add up to the nearest whole second of the
\* input, and they are every unit from the largest one the rounded duration
\* reaches (days, hours or minutes) down to the seconds, zero-valued ones
\* included; the seconds carry decimal_places fraction digits, all zero.
C4_UnitsFromLargestReached ==
    (CalledDuration /\ ~IsMissing(call.args[1])) =>
        LET v == call.args[1]
            cs == Components(call.out.val)
            total == TotalSeconds(cs)
            last == cs[Len(cs)]
        IN  /\ call.out.exc = "none"
            /\ 2 * Abs(total * v.d - v.n) <= v.d
            /\ UnitsOf(cs) = IF total >= 86400 THEN <<"d", "h", "m", "s">>
                             ELSE IF total >= 3600 THEN <<"h", "m", "s">>
                             ELSE IF total >= 60 THEN <<"m", "s">>
                             ELSE <<"s">>
            /\ \A i \in 2..Len(cs) :
                  cs[i].whole \in 0..((UnitSeconds(cs[i - 1].unit) \div UnitSeconds(cs[i].unit)) - 1)
            /\ \A i \in 1..(Len(cs) - 1) : ~cs[i].dotted
            /\ Len(last.frac) = call.args[2]
            /\ \A i \in 1..Len(last.frac) : last.frac[i] = "0"

C4_Witness ==
    /\ CalledDuration
    /\ call.args = <<Float(3600, 1), 1>>
    /\ call.out = Ret(<<"1", "h", " ", "0", "m", " ", "0", ".", "0", "s">>)

RecognizedUnits == {<<"K", "B">>, <<"M", "B">>, <<"G", "B">>, <<"T", "B">>}

\* C5 as stated: format_bytes with a unit outside {KB, MB, GB, TB} (compared
\* case-insensitively) raises for every value, a missing one included.
C5_UnknownUnitAlwaysRaises ==
    (CalledBytes /\ Upper(call.args[2]) \notin RecognizedUnits) =>
        call.out.exc = "ValueError"

\* C5 as amended: with a unit outside {KB, MB, GB, TB} format_bytes raises the
\* configuration error for every value that is not missing, and returns "N/A"
\* for a missing (None/NaN) value; it never renders a number with that unit.
C5_UnknownUnitRaisesUnlessMissing ==
    (CalledBytes /\ Upper(call.args[2]) \notin RecognizedUnits) =>
        IF IsMissing(call.args[1]) THEN call.out = Ret(NA)
        ELSE call.out.exc = "ValueError"

C5_Witness ==
    /\ CalledBytes
    /\ call.args[2] = <<"X", "B">>
    /\ call.args[1] = Int64(1572864)
    /\ call.out.exc = "ValueError"

\* C6: format_currency, format_percentage, format_bytes (with a recognized unit)
\* and format_duration_seconds return "N/A" and raise nothing when the value is
\* missing (None or NaN), whatever the other arguments are.
C6_MissingGivesNA ==
    (/\ call.fn \in {"format_currency", "format_percentage", "format_bytes",
                     "format_duration_seconds"}
     /\ IsMissing(call.args[1])
     /\ (CalledBytes => Upper(call.args[2]) \in RecognizedUnits)) =>
        call.out = [exc |-> "none", val |-> <<"N", "/", "A">>]

C6_Witness ==
    /\ call.fn = "format_percentage"
    /\ call.args[1] = NaN
    /\ call.out.val = NA

----------------------------------------------------------------------------
(* Claims about the metric cards of display_metric_section *)

\* the loop has just run its body for a configured metric
Iterated == section_key \in DOMAIN METRIC_CARD_CONFIGS /\ cfg_idx > 1
LastConfig == METRIC_CARD_CONFIGS[section_key][cfg_idx - 1]
LastEvent == ui[Len(ui)]
IsDerived == LastConfig.label = "Failed Query Rate" /\ section_key = "USER_360_METRICS"
GotRows == ~data_in.err /\ data_in.rows # <<>>
\* the fetch succeeded without a value: no rows, or rows without the value_col
NoValue == ~data_in.err
           /\ (data_in.rows = <<>> \/ LastConfig.value_col \notin Columns(data_in.rows))
\* exactly one thing was rendered, a card showing "N/A" and no delta
OnlyNACard == /\ Len(ui) = 1
              /\ ui[1].kind = "metric"
              /\ ui[1].label = LastConfig.label
              /\ ui[1].value = <<"N", "/", "A">>
              /\ ui[1].delta = NoDelta

\* C7 as stated: for every configured metric, a result without rows or without
\* the metric's value_col renders the card with "N/A" and no delta, with no error.
C7_NoValueGivesNA == (Iterated /\ NoValue) => OnlyNACard

\* C7 as amended: that holds for every configured metric except the derived
\* 'Failed Query Rate' of USER_360_METRICS, whose value is computed from
\* TOTAL_QUERY_COUNT and FAILED_QUERY_COUNT: with no rows its card shows "0.0%"
\* and no delta.
C7_NoValueGivesNAUnlessDerived ==
    /\ (Iterated /\ NoValue /\ ~IsDerived) => OnlyNACard
    /\ (Iterated /\ IsDerived /\ ~data_in.err /\ data_in.rows = <<>>) =>
          ui = <<Metric("Failed Query Rate", <<"0", ".", "0", "%">>, NoDelta, NoColor)>>

C7_Witness ==
    /\ Iterated
    /\ NoValue
    /\ LastConfig.label = "Total Data Scanned"
    /\ data_in.rows # <<>>
    /\ OnlyNACard

IsNumber(v, k) == v.t = "num" /\ v.n = k /\ v.d = 1

\* the overview scenario: TOTAL_CREDITS = 1000 and PREV_TOTAL_CREDITS = 800
C8_Scenario ==
    /\ Iterated
    /\ section_key = "OVERVIEW_METRICS"
    /\ LastConfig.label = "Total Credits Used"
    /\ GotRows
    /\ {"TOTAL_CREDITS", "PREV_TOTAL_CREDITS"} \subseteq Columns(data_in.rows)
    /\ IsNumber(data_in.rows[1]["TOTAL_CREDITS"], 1000)
    /\ IsNumber(data_in.rows[1]["PREV_TOTAL_CREDITS"], 800)

\* C8 as stated: the scenario renders display_delta "+25.0%" with delta_color
\* 'inverse'.
C8_DeltaOneDecimal ==
    C8_Scenario =>
        /\ LastEvent.kind = "metric"
        /\ LastEvent.delta = <<"+", "2", "5", ".", "0", "%">>
        /\ LastEvent.delta_color = "inverse"

\* C8 as amended: the scenario renders display_delta "+25.00%" (format_delta is
\* "{:+.2%}", two decimals) with delta_color 'inverse'.
C8_DeltaTwoDecimals ==
    C8_Scenario =>
        /\ LastEvent.kind = "metric"
        /\ LastEvent.delta = <<"+", "2", "5", ".", "0", "0", "%">>
        /\ LastEvent.delta_color = "inverse"

C8_Witness ==
    /\ C8_Scenario
    /\ ui = <<Metric("Total Credits Used", <<"1", ",", "0", "0", "0">>,
                     <<"+", "2", "5", ".", "0", "0", "%">>, "inverse")>>

\* C9: whenever a card is rendered its direction follows from the sign of the
\* relative change of value against baseline alone: positive is 'inverse',
\* negative 'normal', zero 'off', and an undefined or absent delta has none; this
\* holds for every configured metric.
C9_PolarityFixed ==
    (Iterated /\ card.called) =>
        LET v == card.value
            b == card.delta
            defined == ~IsMissing(v) /\ ~IsMissing(b) /\ (b.n # 0 \/ v.n = 0)
            sgn == (v.n * b.d - b.n * v.d) * b.n
        IN  /\ LastEvent.kind = "metric"
            /\ LastEvent.delta_color = IF ~defined THEN NoColor
                                       ELSE IF sgn > 0 THEN "inverse"
                                       ELSE IF sgn < 0 THEN "normal"
                                       ELSE "off"

C9_Witness ==
    /\ Iterated
    /\ card.called
    /\ section_key = "WAREHOUSE_METRICS"
    /\ card.value = Float(800, 1)
    /\ card.delta = Int64(1000)
    /\ LastEvent.delta_color = "normal"

\* C10: for a metric whose delta_col is configured and present in a non-empty
\* result (its value present too), the card always shows a delta: the formatted
\* change, or "N/A" with no direction when the change is undefined (baseline 0
\* with a non-zero value, or a null/NaN baseline in the first row).
C10_UndefinedDeltaShowsNA ==
    (/\ Iterated
     /\ GotRows
     /\ LastConfig.delta_col # NoStr
     /\ {LastConfig.value_col, LastConfig.delta_col} \subseteq Columns(data_in.rows)
     /\ ~IsMissing(data_in.rows[1][LastConfig.value_col])) =>
        LET v == data_in.rows[1][LastConfig.value_col]
            b == data_in.rows[1][LastConfig.delta_col]
            undefined == IsMissing(b) \/ (b.n = 0 /\ v.n # 0)
        IN  /\ LastEvent.kind = "metric"
            /\ LastEvent.delta # NoDelta
            /\ undefined => (LastEvent.delta = NA /\ LastEvent.delta_color = NoColor)

----------------------------------------------------------------------------
(* Claims on an unknown formatter and on the derived metric *)

CalledRender == call.fn = "render_metric_card"
UnknownFormatter == CalledRender /\ call.args[4] # NoStr /\ call.args[4] \notin HelperFunctions
\* the st.metric event of a direct render_metric_card call
RenderedCard == call.out[Len(call.out)]

\* C11 as stated: when formatter_func names no function of helpers, the card is
\* preceded by one warning and shows str(value), not the format template's output.
C11_UnknownFormatterRaw ==
    UnknownFormatter =>
        /\ call.out[1] = Warning(CardLabel, "formatter_not_found")
        /\ RenderedCard.kind = "metric"
        /\ ~IsNone(call.args[1]) => RenderedCard.value = PyStr(call.args[1])

\* C11 as amended: when formatter_func names no function of helpers, the call
\* does not raise, one warning precedes the card, and the card shows the value
\* through the format_value template ("N/A" for a value of None): 1000 under
\* "{:,.0f}" shows "1,000", and 800.0 under "{:,.2f} GB" shows "800.00 GB".
C11_UnknownFormatterTemplate ==
    UnknownFormatter =>
        LET v == call.args[1]
            fv == call.args[3]
        IN  /\ Len(call.out) = 2
            /\ call.out[1] = Warning(CardLabel, "formatter_not_found")
            /\ RenderedCard.kind = "metric"
            /\ RenderedCard.value = IF IsNone(v) THEN NA ELSE PyFormat(fv, v)
            /\ (v = Int64(1000) /\ fv = FmtInt) =>
                  RenderedCard.value = <<"1", ",", "0", "0", "0">>
            /\ (v = Float(800, 1) /\ fv = FmtGB) =>
                  RenderedCard.value = <<"8", "0", "0", ".", "0", "0", " ", "G", "B">>

C11_Witness ==
    /\ UnknownFormatter
    /\ call.args[4] = "format_nothing"
    /\ call.args[1] = Float(800, 1)
    /\ call.args[3] = FmtInt
    /\ RenderedCard.value = <<"8", "0", "0">>

\* a count column of the first row, 0 when the result has no row or no such column
CountOf(col) ==
    IF GotRows /\ col \in Columns(data_in.rows) THEN data_in.rows[1][col] ELSE Int64(0)

\* C12: after a successful fetch the 'Failed Query Rate' card of USER_360_METRICS
\* shows FAILED_QUERY_COUNT / TOTAL_QUERY_COUNT of the first row when
\* TOTAL_QUERY_COUNT > 0 and 0.0 otherwise (the counts being numbers), and no
\* delta; every other metric's card gets the first row's value_col unchanged
\* (None when the fetch gave no such value).
C12_DerivedOnlyFailedQueryRate ==
    (Iterated /\ ~data_in.err) =>
        IF IsDerived
        THEN LET total == CountOf("TOTAL_QUERY_COUNT")
                 failed == CountOf("FAILED_QUERY_COUNT")
             IN  (~IsNone(total) /\ ~IsNone(failed)) =>
                    /\ card.called
                    /\ card.delta = None
                    /\ LastEvent.kind = "metric"
                    /\ LastEvent.delta = NoDelta
                    /\ IF ~IsNan(total) /\ total.n > 0
                       THEN IF IsNan(failed) THEN card.value = NaN
                            ELSE /\ card.value.t = "num"
                                 /\ card.value.n * (total.n * failed.d)
                                       = card.value.d * (failed.n * total.d)
                       ELSE card.value = Float(0, 1)
        ELSE /\ card.called
             /\ card.value = IF NoValue THEN None
                             ELSE data_in.rows[1][LastConfig.value_col]

C12_Witness ==
    /\ Iterated
    /\ IsDerived
    /\ GotRows
    /\ DOMAIN data_in.rows[1] = {"TOTAL_QUERY_COUNT", "FAILED_QUERY_COUNT"}
    /\ data_in.rows[1]["TOTAL_QUERY_COUNT"] = Int64(5)
    /\ data_in.rows[1]["FAILED_QUERY_COUNT"] = Int64(5)
    /\ ui = <<Metric("Failed Query Rate", <<"1", "0", "0", ".", "0", "%">>, NoDelta,
                     NoColor)>>

----------------------------------------------------------------------------
(* Claims on the isolation of failures *)

InMetricSection == section_key \in DOMAIN ConfiguredMetrics /\ pc \in {"metric_loop", "done"}
SectionConfigs == ConfiguredMetrics[section_key]
LabelOf(config) == Get(config, "label", "Unknown Metric")
LabelsOf(configs) == [i \in 1..Len(configs) |-> LabelOf(configs[i])]
PrevConfig == SectionConfigs[cfg_idx - 1]
Incomplete(config) ==
    Get(config, "query_id", NoStr) = NoStr \/ Get(config, "value_col", NoStr) = NoStr

\* C13: the loop of display_metric_section goes through the section's metrics
\* once each, in configuration order, whatever happened to the earlier ones, and
\* the function returns after the last; a metric with an incomplete
\* configuration, a failed fetch or another exception is reported by exactly one
\* error box naming that metric, and whatever an iteration renders names only
\* its own metric.
C13_MetricFailureIsolated ==
    InMetricSection =>
        /\ cfg_idx \in 1..(Len(SectionConfigs) + 1)
        /\ processed = SubSeq(LabelsOf(SectionConfigs), 1, cfg_idx - 1)
        /\ pc = "done" => processed = LabelsOf(SectionConfigs)
        /\ cfg_idx > 1 =>
              /\ \A i \in 1..Len(ui) : ui[i].label = LabelOf(PrevConfig)
              /\ Incomplete(PrevConfig) =>
                    ui = <<ErrorBox(LabelOf(PrevConfig), "incomplete")>> /\ ~card.called
              /\ (~Incomplete(PrevConfig) /\ data_in.err) =>
                    ui = <<ErrorBox(LabelOf(PrevConfig), "fetch")>> /\ ~card.called
              /\ ~card.called => (Len(ui) = 1 /\ ui[1].kind = "error_box")
              /\ card.called => LastEvent.kind = "metric"

\* a section whose second metric is incomplete and whose third fetch failed has
\* gone through all three and returned
C13_Witness ==
    /\ pc = "done"
    /\ section_key = "DRAFT_METRICS"
    /\ processed = <<"Draft Credits", "Draft Cost", "Unknown Metric">>
    /\ data_in.err
    /\ ui = <<ErrorBox("Unknown Metric", "fetch")>>

----------------------------------------------------------------------------
(* Claims on the charts *)

InChartSection == section_key \in DOMAIN CHART_CONFIGS /\ pc \in {"chart_loop", "done"}
ChartConfigs == CHART_CONFIGS[section_key]
TitleOf(config) == Get(config, "title", "Unknown Chart")
TitlesOf(configs) == [i \in 1..Len(configs) |-> TitleOf(configs[i])]
ChartIterated == InChartSection /\ cfg_idx > 1
PrevChart == ChartConfigs[cfg_idx - 1]
\* the last chart is a line, bar or pie chart whose fetch gave rows
PlottedRows ==
    /\ ChartIterated
    /\ PrevChart.chart_type \in {"line", "bar", "pie"}
    /\ ~data_in.err
    /\ data_in.rows # <<>>
ColumnAbsent == PlottedRows /\ ~(ChartColumnsRead(PrevChart) \subseteq Columns(data_in.rows))

\* C14: a line, bar or pie chart whose non-empty result lacks a column it
\* references gives one warning naming the chart (followed by the raw data) and
\* no error; with all its columns there the chart is drawn; and the loop of
\* display_chart_section goes through every chart of the section once, in
\* configuration order, and returns, whatever the earlier charts met.
C14_ChartMissingColumnWarns ==
    InChartSection =>
        /\ processed = SubSeq(TitlesOf(ChartConfigs), 1, cfg_idx - 1)
        /\ pc = "done" => processed = TitlesOf(ChartConfigs)
        /\ ColumnAbsent =>
              /\ Len(ui) = 2
              /\ ui[1].kind = "warning"
              /\ ui[1].label = TitleOf(PrevChart)
              /\ ui[2] = Dataframe(data_in.rows)
        /\ (PlottedRows /\ ~ColumnAbsent) =>
              /\ Len(ui) = 1
              /\ ui[1].kind = "altair_chart"
              /\ ui[1].label = TitleOf(PrevChart)

\* the first chart of the warehouse section got rows without its y column, and
\* the second chart is up next
C14_Witness ==
    /\ ColumnAbsent
    /\ pc = "chart_loop"
    /\ section_key = "WAREHOUSE_INSIGHTS_CHARTS"
    /\ cfg_idx = 2
    /\ Columns(data_in.rows) = {"USAGE_DAY"}
    /\ ui[1] = Warning("Warehouse Daily Credit Consumption", "missing_columns_line")

PieDrawn == PlottedRows /\ ~ColumnAbsent /\ PrevChart.chart_type = "pie"
PieValue(i) == data_in.rows[i][PrevChart.value_col]
PieShare(i) == ui[1].rows[i]["percentage"]
PieTotal == SumFrom(data_in.rows, PrevChart.value_col, 1)

\* C15: a pie chart is drawn over the rows of the result with a share for each:
\* value / sum(value) when the total is positive, so that the shares sum to 1
\* (values [10, 20, 70] give 1/10, 1/5 and 7/10), and 0 for every row when the
\* total is 0; no error is raised.
C15_PieShares ==
    PieDrawn =>
        /\ ui[1].kind = "altair_chart"
        /\ Len(ui[1].rows) = Len(data_in.rows)
        /\ \A i \in 1..Len(data_in.rows) :
              /\ PieShare(i).t = "num"
              /\ IF PieTotal.n > 0
                 THEN PieShare(i).n * PieTotal.n * PieValue(i).d
                         = PieValue(i).n * PieShare(i).d * PieTotal.d
                 ELSE PieShare(i).n = 0
        /\ PieTotal.n > 0 => NumEq(SumFrom(ui[1].rows, "percentage", 1), Int64(1))
        /\ (\A i \in 1..Len(data_in.rows) : PieValue(i).n = 0) =>
              \A i \in 1..Len(data_in.rows) : PieShare(i).n = 0
        /\ [i \in 1..Len(data_in.rows) |-> PieValue(i).n] = <<10, 20, 70>> =>
              [i \in 1..3 |-> <<PieShare(i).n, PieShare(i).d>>]
                 = <<(<<1, 10>>), (<<1, 5>>), (<<7, 10>>)>>

C15_Witness ==
    /\ PieDrawn
    /\ PrevChart.title = "Warehouse Query Completion Status"
    /\ [i \in 1..Len(data_in.rows) |-> PieValue(i).n] = <<10, 20, 70>>
    /\ PieShare(3) = Float(7, 10)

\* the all-zero case of C15: a pie over rows whose values are all 0
C15_WitnessZero ==
    /\ PieDrawn
    /\ [i \in 1..Len(data_in.rows) |-> PieValue(i).n] = <<0, 0>>
    /\ PieShare(1).n = 0

----------------------------------------------------------------------------
(* Claims on the recommendations *)

CalledRecommendations == call.fn = "generate_finops_recommendations" /\ pc = "done"
\* the call came back with a list
RecommendationsReturned == CalledRecommendations /\ call.out.exc = "none"
\* an exception came out of the call
RecommendationsRaised == CalledRecommendations /\ call.out.exc # "none"
\* the advisories of `rule` in a list
AdvisoriesOf(recs, rule) == {i \in 1..Len(recs) : recs[i].rule = rule}

\* C16: generate_finops_recommendations never returns an empty list: when no rule
\* fired it returns the one-element list holding the sentinel, and when a rule
\* fired it returns the advisories, the sentinel not among them
C16_NeverEmpty ==
    RecommendationsReturned =>
        /\ call.out.val # <<>>
        /\ recommendations = <<>> => call.out.val = <<NoRecommendations>>
        /\ recommendations # <<>> =>
              /\ call.out.val = recommendations
              /\ \A i \in 1..Len(call.out.val) : call.out.val[i] # NoRecommendations

\* no rule fired, although queries were answered, and the sentinel came back
C16_Witness ==
    /\ RecommendationsReturned
    /\ recommendations = <<>>
    /\ fetched # <<>>
    /\ \A i \in 1..Len(fetched) : ~fetched[i].outcome.err
    /\ call.out.val = <<NoRecommendations>>

\* two rules fired and their advisories came back
C16_WitnessFired ==
    /\ RecommendationsReturned
    /\ Len(recommendations) >= 2
    /\ call.out.val = recommendations

\* the last try block fetched `query_id`; and that fetch raised DataFetchError
Issued(query_id) == \E i \in 1..Len(fetched) : fetched[i].query_id = query_id
Failed(query_id) ==
    \E i \in 1..Len(fetched) : fetched[i].query_id = query_id /\ fetched[i].outcome.err
\* the first row the last try block got from `query_id`
RowOf(query_id) ==
    LET i == CHOOSE j \in 1..Len(fetched) : fetched[j].query_id = query_id
    IN  fetched[i].outcome.rows[1]
\* the summary row of the selected warehouse asks for the low-usage advisory
LowUsageDue ==
    /\ Issued("WAREHOUSE_SUMMARY_METRICS")
    /\ ~Failed("WAREHOUSE_SUMMARY_METRICS")
    /\ selected_warehouse # NoStr
    /\ RowOf("WAREHOUSE_SUMMARY_METRICS")["SIZE"] \notin {"X-SMALL", "SMALL"}
    /\ ~IsNone(RowOf("WAREHOUSE_SUMMARY_METRICS")["ACTIVE_MINUTES"])
    /\ IsLess(RowOf("WAREHOUSE_SUMMARY_METRICS")["ACTIVE_MINUTES"],
              (end_date - start_date) * 6, 1)

\* C17 (as the specification states it): a failed fetch does not stop the rules
\* that come after it: after a failed USER_360_SUMMARY_METRICS fetch the user's
\* warehouse-idle rule still fetches its data, and after a failed
\* WAREHOUSE_QUEUED_OVERLOAD_TIME_TREND fetch the low-usage rule still gives its
\* advisory when the summary row asks for it
C17_FetchErrorKeepsLaterRules ==
    /\ Failed("USER_360_SUMMARY_METRICS") => Issued("USER_WAREHOUSE_UTILIZATION_OVERVIEW")
    /\ (Failed("WAREHOUSE_QUEUED_OVERLOAD_TIME_TREND") /\ LowUsageDue) =>
          AdvisoriesOf(recommendations, "warehouse_low_usage") # {}

\* C17, the part the code keeps: a failed fetch never leaves the call, it shows
\* one warning, and the call goes on with the next try block
C17_FetchErrorCaught ==
    (\E i \in 1..Len(fetched) : fetched[i].outcome.err) =>
        /\ pc \in {"rec_account_cost", "rec_user", "rec_warehouse", "rec_return", "done"}
        /\ ~RecommendationsRaised
        /\ \E why \in {"no_warehouse_summary", "no_cost_overview", "no_user_data",
                       "no_warehouse_data"} : ui = <<WarningBox(why)>>

\* the user's summary fetch failed and the try block was left at once
C17_UserRuleSkipped ==
    /\ pc = "rec_warehouse"
    /\ Failed("USER_360_SUMMARY_METRICS")
    /\ ~Issued("USER_WAREHOUSE_UTILIZATION_OVERVIEW")
    /\ ui = <<WarningBox("no_user_data")>>

\* the queue fetch failed on a large warehouse without active minutes, and the
\* low-usage advisory is not in the returned list
C17_LowUsageSkipped ==
    /\ RecommendationsReturned
    /\ Failed("WAREHOUSE_QUEUED_OVERLOAD_TIME_TREND")
    /\ LowUsageDue
    /\ AdvisoriesOf(call.out.val, "warehouse_low_usage") = {}

\* the place of a rule in the source: the account's two, the user's four, the
\* warehouse's three
RuleOrder ==
    <<"account_warehouse_idle", "account_cost_increase", "user_query_duration",
      "user_credits_per_query", "user_failed_queries", "user_warehouse_idle",
      "warehouse_idle", "warehouse_queued", "warehouse_low_usage">>
RuleRank(rule) == CHOOSE k \in 1..Len(RuleOrder) : RuleOrder[k] = rule
InRecommendations == pc \in {"rec_account_idle", "rec_account_cost", "rec_user",
                             "rec_warehouse", "rec_return"} \/ CalledRecommendations
FetchedIds == {fetched[i].query_id : i \in 1..Len(fetched)}
\* the place of a warehouse's row in the fetched results, which list WH1, WH2, WH3
RowPlace(name) == CHOOSE k \in 1..3 : <<"WH1", "WH2", "WH3">>[k] = name

\* C23: the account's rules run, and their queries are issued, only when neither
\* a user nor a warehouse is selected, the user's rules only when a user is, the
\* warehouse's rules only when a warehouse is; the advisories stand in the order
\* account, user, warehouse, each in source order (and row order within a rule)
C23_ScopedAndOrdered ==
    InRecommendations =>
        /\ \A i \in 1..Len(recommendations) :
              /\ recommendations[i].rule \in {RuleOrder[k] : k \in 1..Len(RuleOrder)}
              /\ RuleRank(recommendations[i].rule) <= 2 =>
                    (selected_entity = NoStr /\ selected_warehouse = NoStr)
              /\ RuleRank(recommendations[i].rule) \in 3..6 =>
                    (selected_entity # NoStr
                     /\ recommendations[i].subject = selected_entity)
              /\ RuleRank(recommendations[i].rule) >= 7 =>
                    (selected_warehouse # NoStr
                     /\ recommendations[i].subject = selected_warehouse)
        /\ \A i, j \in 1..Len(recommendations) :
              i < j => /\ RuleRank(recommendations[i].rule)
                            <= RuleRank(recommendations[j].rule)
                       /\ recommendations[i].rule = recommendations[j].rule =>
                             RowPlace(recommendations[i].object[1])
                                < RowPlace(recommendations[j].object[1])
        /\ pc = "rec_account_cost" =>
              FetchedIds = IF selected_entity = NoStr /\ selected_warehouse = NoStr
                           THEN {"WAREHOUSE_SUMMARY_METRICS"} ELSE {}
        /\ pc = "rec_user" =>
              FetchedIds = IF selected_entity = NoStr /\ selected_warehouse = NoStr
                           THEN {"TOTAL_COST_AND_CREDITS_OVERVIEW"} ELSE {}
        /\ pc = "rec_warehouse" =>
              /\ selected_entity = NoStr => FetchedIds = {}
              /\ selected_entity # NoStr =>
                    /\ "USER_360_SUMMARY_METRICS" \in FetchedIds
                    /\ FetchedIds \subseteq {"USER_360_SUMMARY_METRICS",
                                             "USER_WAREHOUSE_UTILIZATION_OVERVIEW"}
        /\ pc = "rec_return" =>
              /\ selected_warehouse = NoStr => FetchedIds = {}
              /\ selected_warehouse # NoStr =>
                    /\ "WAREHOUSE_SUMMARY_METRICS" \in FetchedIds
                    /\ FetchedIds \subseteq {"WAREHOUSE_SUMMARY_METRICS",
                                             "WAREHOUSE_QUEUED_OVERLOAD_TIME_TREND"}
        /\ RecommendationsReturned =>
              (recommendations # <<>> => call.out.val = recommendations)

\* a user and a warehouse are selected: the user's three summary advisories and
\* idle warehouse come first, then the warehouse's own, and none for the account
C23_Witness ==
    /\ RecommendationsReturned
    /\ selected_entity = "ALICE"
    /\ selected_warehouse = "WH1"
    /\ [i \in 1..Len(call.out.val) |-> call.out.val[i].rule]
          = <<"user_query_duration", "user_credits_per_query", "user_failed_queries",
              "user_warehouse_idle", "warehouse_idle", "warehouse_queued">>

\* nothing is selected: the account's idle warehouses in row order, then the cost
C23_WitnessAccount ==
    /\ RecommendationsReturned
    /\ selected_entity = NoStr /\ selected_warehouse = NoStr
    /\ [i \in 1..Len(call.out.val) |-> call.out.val[i].rule]
          = <<"account_warehouse_idle", "account_warehouse_idle", "account_cost_increase">>
    /\ [i \in 1..2 |-> call.out.val[i].object[1]] = <<"WH1", "WH3">>

\* the last try block got rows from `query_id`
RuleGotRows(query_id) ==
    \E i \in 1..Len(fetched) : /\ fetched[i].query_id = query_id
                               /\ ~fetched[i].outcome.err
                               /\ fetched[i].outcome.rows # <<>>
RowsOf(query_id) ==
    fetched[CHOOSE j \in 1..Len(fetched) : fetched[j].query_id = query_id].outcome.rows
\* a fetched value is a number, and it is more than n/d
IsNum(v) == v.t = "num"
Exceeds(v, n, d) == IsNum(v) /\ v.n * d > n * v.d
Fired(rule) == AdvisoriesOf(recommendations, rule) # {}
\* the cost now is more than 10% over a previous cost that is a number and not 0
CostUp(row) ==
    LET now == row["ESTIMATED_COST_USD"]
        before == row["PREV_ESTIMATED_COST_USD"]
    IN  /\ IsNum(now) /\ IsNum(before) /\ before.n # 0
        /\ IF before.n > 0
           THEN 10 * (now.n * before.d - before.n * now.d) > before.n * now.d
           ELSE 10 * (now.n * before.d - before.n * now.d) < before.n * now.d
\* more than 5% of the queries failed
FailedOften(row) ==
    /\ row["TOTAL_QUERY_COUNT"].n > 0
    /\ IsNum(row["FAILED_QUERY_COUNT"])
    /\ 20 * row["FAILED_QUERY_COUNT"].n * row["TOTAL_QUERY_COUNT"].d
          > row["TOTAL_QUERY_COUNT"].n * row["FAILED_QUERY_COUNT"].d

\* C24: the thresholds are strict: the cost rule fires exactly when the increase
\* is defined and more than 10%, the duration rule exactly above 300 s, the
\* failed-queries rule exactly when there are queries and more than 5% of them
\* failed, the queue rule exactly when more than 1800 s were queued in total; at
\* the threshold itself, with no queries, or with an undefined increase, none fires
C24_StrictThresholds ==
    /\ (pc = "rec_user" /\ RuleGotRows("TOTAL_COST_AND_CREDITS_OVERVIEW")) =>
          (Fired("account_cost_increase")
              <=> CostUp(RowsOf("TOTAL_COST_AND_CREDITS_OVERVIEW")[1]))
    /\ (pc = "rec_warehouse" /\ RuleGotRows("USER_360_SUMMARY_METRICS")) =>
          LET row == RowsOf("USER_360_SUMMARY_METRICS")[1]
          IN  /\ Fired("user_query_duration")
                    <=> Exceeds(row["AVG_QUERY_DURATION_SEC"], 300, 1)
              /\ Fired("user_failed_queries") <=> FailedOften(row)
              /\ Fired("user_credits_per_query")
                    <=> Exceeds(row["AVG_CREDITS_PER_QUERY"], 1, 1)
    /\ (pc = "rec_return" /\ RuleGotRows("WAREHOUSE_QUEUED_OVERLOAD_TIME_TREND")) =>
          (Fired("warehouse_queued")
              <=> Exceeds(SumFrom(RowsOf("WAREHOUSE_QUEUED_OVERLOAD_TIME_TREND"),
                                  "TOTAL_QUEUED_OVERLOAD_TIME_SEC", 1), 1800, 1))

\* 300 s on average and 1 failed query in 20: the user's summary gives no advisory
C24_Witness ==
    /\ pc = "rec_warehouse"
    /\ RuleGotRows("USER_360_SUMMARY_METRICS")
    /\ RowsOf("USER_360_SUMMARY_METRICS")[1]
          = UserRow(Float(300, 1), Float(1, 1), Int64(1), Int64(20))
    /\ ~Fired("user_query_duration")
    /\ ~Fired("user_failed_queries")

\* 1800 s queued in all: no advisory; 1801 s: the advisory
C24_WitnessQueueAt ==
    /\ pc = "rec_return"
    /\ RuleGotRows("WAREHOUSE_QUEUED_OVERLOAD_TIME_TREND")
    /\ RowsOf("WAREHOUSE_QUEUED_OVERLOAD_TIME_TREND") = QueueRows(<<1800>>)
    /\ ~Fired("warehouse_queued")
C24_WitnessQueueOver ==
    /\ pc = "rec_return"
    /\ RuleGotRows("WAREHOUSE_QUEUED_OVERLOAD_TIME_TREND")
    /\ RowsOf("WAREHOUSE_QUEUED_OVERLOAD_TIME_TREND") = QueueRows(<<1000, 801>>)
    /\ Fired("warehouse_queued")

\* a cost of 110 after 100, and of 100 after 0 or after nothing: no advisory; 111
\* after 100: the advisory
C24_WitnessCostAt ==
    /\ pc = "rec_user"
    /\ RuleGotRows("TOTAL_COST_AND_CREDITS_OVERVIEW")
    /\ RowsOf("TOTAL_COST_AND_CREDITS_OVERVIEW")[1] = CostRow(Float(110, 1), Float(100, 1))
    /\ ~Fired("account_cost_increase")
C24_WitnessCostUndefined ==
    /\ pc = "rec_user"
    /\ RuleGotRows("TOTAL_COST_AND_CREDITS_OVERVIEW")
    /\ RowsOf("TOTAL_COST_AND_CREDITS_OVERVIEW")[1] = CostRow(Float(100, 1), Float(0, 1))
    /\ ~Fired("account_cost_increase")
C24_WitnessCostOver ==
    /\ pc = "rec_user"
    /\ RuleGotRows("TOTAL_COST_AND_CREDITS_OVERVIEW")
    /\ RowsOf("TOTAL_COST_AND_CREDITS_OVERVIEW")[1] = CostRow(Float(111, 1), Float(100, 1))
    /\ Fired("account_cost_increase")

\* the last metric's result has a row but not every column its iteration reads
MetricColumnAbsent ==
    /\ InMetricSection
    /\ cfg_idx > 1
    /\ ~Incomplete(PrevConfig)
    /\ ~data_in.err
    /\ data_in.rows # <<>>
    /\ ~(ColumnsRead(section_key, PrevConfig) \subseteq Columns(data_in.rows))
\* the last try block of the recommendations got rows without a column of the query
RuleColumnAbsent ==
    \E i \in 1..Len(fetched) :
        /\ ~fetched[i].outcome.err
        /\ fetched[i].outcome.rows # <<>>
        /\ \E col \in {"IDLE_PERCENTAGE", "WAREHOUSE_NAME", "PREV_ESTIMATED_COST_USD",
                       "FAILED_QUERY_COUNT", "IDLE_PERCENTAGE_ON_WH_USER_USED",
                       "AUTO_SUSPEND", "TOTAL_QUEUED_OVERLOAD_TIME_SEC"} :
              /\ col \notin Columns(fetched[i].outcome.rows)
              /\ fetched[i].query_id \in
                    CASE col \in {"IDLE_PERCENTAGE", "WAREHOUSE_NAME", "AUTO_SUSPEND"} ->
                            {"WAREHOUSE_SUMMARY_METRICS",
                             "USER_WAREHOUSE_UTILIZATION_OVERVIEW"}
                      [] col = "PREV_ESTIMATED_COST_USD" ->
                            {"TOTAL_COST_AND_CREDITS_OVERVIEW"}
                      [] col = "FAILED_QUERY_COUNT" -> {"USER_360_SUMMARY_METRICS"}
                      [] col = "IDLE_PERCENTAGE_ON_WH_USER_USED" ->
                            {"USER_WAREHOUSE_UTILIZATION_OVERVIEW"}
                      [] col = "TOTAL_QUEUED_OVERLOAD_TIME_SEC" ->
                            {"WAREHOUSE_QUEUED_OVERLOAD_TIME_TREND"}

\* C18 (as the specification states it): a fetched result lacking an expected
\* column makes no exception escape: the metric section shows a card or an error
\* box for the metric and goes on, the chart section shows a warning for the
\* chart and goes on, and generate_finops_recommendations goes on to return
C18_MissingColumnNeverEscapes ==
    /\ MetricColumnAbsent =>
          /\ pc \in {"metric_loop", "done"}
          /\ ui # <<>>
          /\ \A i \in 1..Len(ui) : ui[i].label = LabelOf(PrevConfig)
          /\ card.called \/ ui = <<ErrorBox(LabelOf(PrevConfig), "unexpected")>>
    /\ ColumnAbsent =>
          /\ pc \in {"chart_loop", "done"}
          /\ ui[1].kind = "warning"
    /\ RuleColumnAbsent => ~RecommendationsRaised

\* C18, the part the code keeps: the two sections
C18_SectionsContainMissingColumn ==
    /\ MetricColumnAbsent =>
          /\ pc \in {"metric_loop", "done"}
          /\ ui # <<>>
          /\ \A i \in 1..Len(ui) : ui[i].label = LabelOf(PrevConfig)
          /\ card.called \/ ui = <<ErrorBox(LabelOf(PrevConfig), "unexpected")>>
    /\ ColumnAbsent =>
          /\ pc \in {"chart_loop", "done"}
          /\ ui[1].kind = "warning"

\* the warehouse summary of the account came without IDLE_PERCENTAGE and a
\* KeyError left generate_finops_recommendations
C18_KeyErrorEscapes ==
    /\ RecommendationsRaised
    /\ call.out.exc = "KeyError"
    /\ RuleColumnAbsent
    /\ fetched[1].query_id = "WAREHOUSE_SUMMARY_METRICS"
    /\ "IDLE_PERCENTAGE" \notin Columns(fetched[1].outcome.rows)
    /\ selected_entity = NoStr /\ selected_warehouse = NoStr

\* the try block of the selected warehouse got a summary row and ran to its end
WarehouseRulesDone ==
    /\ pc = "rec_return" \/ RecommendationsReturned
    /\ selected_warehouse # NoStr
    /\ Issued("WAREHOUSE_SUMMARY_METRICS")
    /\ ~Failed("WAREHOUSE_SUMMARY_METRICS")
    /\ fetched[1].outcome.rows # <<>>
SummaryRow == RowOf("WAREHOUSE_SUMMARY_METRICS")
\* a fetched value is a number above `bound`
Above(v, bound) == v.t = "num" /\ v.n > bound * v.d
\* the idle-time advisories naming the selected warehouse
IdleAdvisories ==
    {i \in AdvisoriesOf(recommendations, "warehouse_idle") :
        recommendations[i].subject = selected_warehouse}

\* C19: when the rules of the selected warehouse have run, the list holds the
\* idle-time / auto-suspend advisory naming that warehouse exactly when the first
\* summary row has IDLE_PERCENTAGE > 20 and AUTO_SUSPEND > 300, and holds it
\* once; 35% idle with 600 s gives it, 5% idle never does, and neither do 20%
\* idle or 300 s
C19_IdleAdvisoryIff ==
    WarehouseRulesDone =>
        /\ IdleAdvisories # {} <=> /\ Above(SummaryRow["IDLE_PERCENTAGE"], 20)
                                   /\ Above(SummaryRow["AUTO_SUSPEND"], 300)
        /\ Cardinality(IdleAdvisories) <= 1
        /\ (/\ SummaryRow["IDLE_PERCENTAGE"] = Float(35, 1)
            /\ SummaryRow["AUTO_SUSPEND"] = Int64(600)) => IdleAdvisories # {}
        /\ SummaryRow["IDLE_PERCENTAGE"] = Float(5, 1) => IdleAdvisories = {}
        /\ RecommendationsReturned =>
              \A i \in IdleAdvisories : call.out.val[i] = recommendations[i]

\* 35% idle with an auto-suspend of 600 s: the returned list has the advisory for WH1
C19_Witness ==
    /\ WarehouseRulesDone
    /\ RecommendationsReturned
    /\ SummaryRow["IDLE_PERCENTAGE"] = Float(35, 1)
    /\ SummaryRow["AUTO_SUSPEND"] = Int64(600)
    /\ \E i \in IdleAdvisories :
          /\ call.out.val[i].subject = "WH1"
          /\ call.out.val[i].shown = <<(<<"3", "5", ".", "0", "%">>),
                                     (<<"1", "0", "m", " ", "0", ".", "0", "s">>)>>

\* 5% idle, and 35% idle at the 300 s of the threshold: no idle advisory
C19_WitnessBelow ==
    /\ WarehouseRulesDone
    /\ RecommendationsReturned
    /\ SummaryRow["IDLE_PERCENTAGE"] = Float(35, 1)
    /\ SummaryRow["AUTO_SUSPEND"] = Int64(300)
    /\ IdleAdvisories = {}


----------------------------------------------------------------------------
(* Claims on the date range *)

CalledSelector == call.fn = "date_range_selector"
SelectorToday == call.args[1]
SelectorDefaultDays == call.args[2]
\* the custom range was chosen, with these two dates
CustomPicked == CalledSelector /\ call.args[3] = "Custom Range"
PickedStart == call.args[4]
PickedEnd == call.args[5]
ErrorShown == \E i \in 1..Len(ui) : ui[i].kind = "error"

\* C20: date_range_selector returns start <= end, always: a custom selection with
\* start after end is not returned but replaced by the default_days days ending
\* today, with an error notice; a custom selection in order is returned as picked,
\* and a preset gives its number of days ending today; neither shows the notice
C20_RangeNeverInverted ==
    CalledSelector =>
        /\ call.out[1] <= call.out[2]
        /\ (CustomPicked /\ PickedStart > PickedEnd) =>
              /\ call.out = <<SelectorToday - SelectorDefaultDays + 1, SelectorToday>>
              /\ call.out # <<PickedStart, PickedEnd>>
              /\ ErrorShown
        /\ (CustomPicked /\ PickedStart <= PickedEnd) =>
              /\ call.out = <<PickedStart, PickedEnd>>
              /\ ~ErrorShown
        /\ ~CustomPicked =>
              /\ call.out[2] = SelectorToday
              /\ call.out[2] - call.out[1] + 1 \in {7, 30, 90, 365}
              /\ ~ErrorShown
        /\ ui[Len(ui)] = ShowingInfo(call.out[1], call.out[2])

\* a custom range picked the wrong way round came back as the last 30 days, with
\* the notice
C20_Witness ==
    /\ CustomPicked
    /\ PickedStart = DateBase + 1
    /\ PickedEnd = DateBase
    /\ SelectorDefaultDays = 30
    /\ call.out = <<SelectorToday - 29, SelectorToday>>
    /\ ErrorShown


----------------------------------------------------------------------------
(* Claims on the pages and on execute_query *)

\* the guard of the page has run and found no DataFetcher
NoFetcherFound == session \in {"absent", "other"}

\* C21: when the page finds no DataFetcher in the session state it shows its
\* header and one error and the pass is over: no selector, section,
\* recommendation or helper has run and no query was issued in that pass
C21_NoFetcherHalts ==
    NoFetcherFound =>
        /\ pc = "done"
        /\ \E page \in Pages : ui = <<PageHeader(page), ErrorBox(page, "no_session")>>
        /\ call = NoCall
        /\ section_key = NoStr
        /\ processed = <<>>
        /\ query = NoQuery
        /\ fetched = <<>>
        /\ recommendations = <<>>

\* the User 360 page found an object that is no DataFetcher and stopped
C21_Witness ==
    /\ session = "other"
    /\ pc = "done"
    /\ ui = <<PageHeader("User 360"), ErrorBox("User 360", "no_session")>>
    /\ call = NoCall

CalledExecute == call.fn = "execute_query"
ExecuteId == call.args[1]
ExecuteCached == call.args[3]
ExecuteSession == call.args[4]

\* C22: execute_query raises nothing but DataFetchError: an identifier that is
\* not in SQL_QUERIES raises it without the session being used, an exception of
\* the session call is raised again as DataFetchError with that exception as its
\* cause, and a call of the session that succeeds returns its table
C22_OnlyDataFetchError ==
    CalledExecute =>
        /\ call.out.exc \in {"none", "DataFetchError"}
        /\ ExecuteId \notin SQL_QUERIES =>
              /\ call.out.exc = "DataFetchError"
              /\ call.out.cause = "not_found"
              /\ ~call.out.session_used
        /\ (ExecuteId \in SQL_QUERIES /\ ~ExecuteCached.hit) =>
              /\ call.out.session_used
              /\ ExecuteSession.raised # "none" =>
                    /\ call.out.exc = "DataFetchError"
                    /\ call.out.cause = ExecuteSession.raised
              /\ ExecuteSession.raised = "none" =>
                    /\ call.out.exc = "none"
                    /\ call.out.val = ExecuteSession.rows
        /\ ExecuteCached.hit => (call.out.exc = "none" /\ call.out.val = ExecuteCached.rows)

\* the session raised a KeyError on a known query and DataFetchError came out
C22_Witness ==
    /\ CalledExecute
    /\ ExecuteId = "USER_360_SUMMARY_METRICS"
    /\ ExecuteSession = SessionRaised("KeyError")
    /\ call.out.exc = "DataFetchError"
    /\ call.out.cause = "KeyError"
    /\ call.out.session_used

\* an unknown identifier: DataFetchError, and the session was left alone
C22_WitnessUnknown ==
    /\ CalledExecute
    /\ ExecuteId = "UNKNOWN_QUERY"
    /\ call.out.exc = "DataFetchError"
    /\ ~call.out.session_used


----------------------------------------------------------------------------
(* Claims on the order of a chart and on the parameters of the queries *)

\* render_chart was called with a line or bar definition that sets sort_desc, and
\* it drew a chart
SortedChartDrawn ==
    /\ call.fn = "render_chart"
    /\ call.args[2].sort_desc
    /\ call.out.exc = "none"
    /\ call.out.val[1].kind = "altair_chart"
\* a bar chart of a section that sets sort_desc was drawn
SortedBarsOfSection ==
    /\ PlottedRows /\ ~ColumnAbsent
    /\ Get(PrevChart, "sort_desc", FALSE)
    /\ PrevChart.chart_type = "bar"
\* the y values of the marks, in the order drawn
DrawnY(chart) == [k \in 1..Len(chart.rows) |-> DrawnRows(chart)[k][chart.y].n]
Descending(seq) == \A k \in 1..(Len(seq) - 1) : seq[k] >= seq[k + 1]
\* the drawn marks are the rows of the data, each once
SameRows(chart, data) ==
    /\ Len(DrawnRows(chart)) = Len(data)
    /\ \A i \in 1..Len(data) :
          Cardinality({k \in 1..Len(data) : DrawnRows(chart)[k] = data[i]})
             = Cardinality({k \in 1..Len(data) : data[k] = data[i]})

\* C25 (as the specification states it): a bar chart and a line chart whose
\* definition sets sort_desc are drawn in descending order of the y column, with
\* every row of the result
C25_SortDescOrdersByY ==
    /\ SortedChartDrawn =>
          /\ Descending(DrawnY(call.out.val[1]))
          /\ SameRows(call.out.val[1], call.args[1])
    /\ SortedBarsOfSection =>
          /\ Descending(DrawnY(ui[1]))
          /\ SameRows(ui[1], data_in.rows)

\* C25, the part the code keeps: the bar charts, and no chart drops a row
C25_BarsSortedDescending ==
    /\ (SortedChartDrawn /\ call.args[2].chart_type = "bar") =>
          Descending(DrawnY(call.out.val[1]))
    /\ (call.fn = "render_chart" /\ call.out.val[1].kind = "altair_chart") =>
          SameRows(call.out.val[1], call.args[1])
    /\ SortedBarsOfSection =>
          /\ Descending(DrawnY(ui[1]))
          /\ SameRows(ui[1], data_in.rows)

\* a bar chart with sort_desc over the values 10, 20, 70 is drawn as 70, 20, 10
C25_BarsSorted ==
    /\ SortedChartDrawn
    /\ call.args[2].chart_type = "bar"
    /\ [i \in 1..Len(call.args[1]) |-> call.args[1][i]["Y"].n] = <<10, 20, 70>>
    /\ DrawnY(call.out.val[1]) = <<70, 20, 10>>

\* a line chart with sort_desc over the values 10, 20, 70 is drawn as 10, 20, 70
C25_LineNotSorted ==
    /\ SortedChartDrawn
    /\ call.args[2].chart_type = "line"
    /\ call.out.val[1].sort = "none"
    /\ DrawnY(call.out.val[1]) = <<10, 20, 70>>

\* the last iteration of a section issued a query
MetricQueryIssued == InMetricSection /\ cfg_idx > 1 /\ query # NoQuery
ChartQueryIssued == ChartIterated /\ query # NoQuery
EntityNameKeys == {"selected_user_name", "selected_warehouse_name"}
PrevKeys == {"prev_start_date", "prev_end_date"}

\* C26: a query of display_chart_section carries start_date and end_date of the
\* section, at most one entity name and nothing else, so never prev_start_date
\* or prev_end_date; a query of display_metric_section carries both of these,
\* with the values computed before the loop from the section's range
C26_QueryParameters ==
    /\ ChartQueryIssued =>
          /\ {"start_date", "end_date"} \subseteq DOMAIN query.params
          /\ DOMAIN query.params \subseteq {"start_date", "end_date"} \cup EntityNameKeys
          /\ Cardinality(DOMAIN query.params \cap EntityNameKeys) <= 1
          /\ DOMAIN query.params \cap PrevKeys = {}
          /\ query.params["start_date"] = start_date
          /\ query.params["end_date"] = end_date
    /\ MetricQueryIssued =>
          /\ PrevKeys \subseteq DOMAIN query.params
          /\ <<query.params["prev_start_date"], query.params["prev_end_date"]>> = prev_dates
          /\ prev_dates = calculate_prev_period_dates(start_date, end_date)
          /\ query.params["start_date"] = start_date
          /\ query.params["end_date"] = end_date

\* C26: the previous period is computed once per section: no iteration of the
\* loop changes it
C26_PrevComputedOnce ==
    [][pc = "metric_loop" => prev_dates' = prev_dates]_vars

\* a chart query of the user page for ALICE carries three parameters
C26_Witness ==
    /\ ChartQueryIssued
    /\ DOMAIN query.params = {"start_date", "end_date", "selected_user_name"}
    /\ query.params["selected_user_name"] = "ALICE"

\* a metric query over a range of several days carries the previous period
C26_WitnessMetric ==
    /\ MetricQueryIssued
    /\ start_date < end_date
    /\ query.params["prev_end_date"] = start_date - 1
    /\ query.params["prev_start_date"] < query.params["prev_end_date"]


----------------------------------------------------------------------------
(* Claims on display_recommendations_section *)

CalledDisplayRecommendations == call.fn = "display_recommendations_section"

\* C27 (as the specification states it): display_recommendations_section renders
\* the header, calls generate_finops_recommendations once and then shows one
\* bullet per returned advisory, in the returned order, and it returns without
\* raising whatever user and warehouse are selected
C27_OneBulletPerAdvisory ==
    CalledDisplayRecommendations =>
       /\ call.out.exc = "none"
       /\ display_recommendations_section(call.args[5]).generate_calls = 1
       /\ ui[1] = Header
       /\ call.args[5].exc = "none" =>
             /\ Len(ui) = 1 + Len(call.args[5].val)
             /\ \A i \in 1..Len(call.args[5].val) :
                   ui[i + 1] = Bullet(call.args[5].val[i])

\* what the code does: the call ends at line 215 with a NameError, before anything
\* is rendered and before generate_finops_recommendations is called
C27_EndsAtHeader ==
    CalledDisplayRecommendations =>
       /\ call.out = Raise("NameError")
       /\ ui = <<>>
       /\ display_recommendations_section(call.args[5]).generate_calls = 0

\* the call with two advisories to show, for a selected warehouse
C27_TwoAdvisories ==
    /\ CalledDisplayRecommendations
    /\ call.args[4] = "WH1"
    /\ call.args[5].exc = "none"
    /\ Len(call.args[5].val) = 2


----------------------------------------------------------------------------
(* Claims on the idle percentage *)

\* the "Idle Percentage" card of the warehouse metrics was drawn from a number
IdleCardDrawn ==
    /\ InMetricSection /\ section_key = "WAREHOUSE_METRICS" /\ cfg_idx > 1
    /\ PrevConfig.label = "Idle Percentage"
    /\ card.called
    /\ card.value.t = "num"
\* the idle-time advisory of the selected warehouse was produced
IdleAdvisoryGiven == WarehouseRulesDone /\ IdleAdvisories # {}
Text35 == <<"3", "5", ".", "0", "%">>
Text3500 == <<"3", "5", "0", "0", ".", "0", "%">>

\* C28 (as the specification states it): the card "Idle Percentage" and the
\* idle-time advisory both show an IDLE_PERCENTAGE of p as
\* format_percentage(p / 100), so 35 reads "35.0%" in both places
C28_SamePercentage ==
    /\ IdleAdvisoryGiven =>
          \A i \in IdleAdvisories :
             /\ recommendations[i].shown[1] = IdleText(SummaryRow["IDLE_PERCENTAGE"])
             /\ SummaryRow["IDLE_PERCENTAGE"] = Float(35, 1) =>
                   recommendations[i].shown[1] = Text35
    /\ IdleCardDrawn =>
          /\ LastEvent.value = IdleText(card.value)
          /\ card.value = Float(35, 1) => LastEvent.value = Text35

\* what the code does: the advisory shows format_percentage(p / 100), the card
\* format_percentage(p), a hundred times as much
C28_CardShowsHundredfold ==
    /\ IdleAdvisoryGiven =>
          \A i \in IdleAdvisories :
             recommendations[i].shown[1] = IdleText(SummaryRow["IDLE_PERCENTAGE"])
    /\ IdleCardDrawn =>
          /\ LastEvent.value = format_percentage(card.value,
                                                 DefaultDecimalsPercentage).val
          /\ LastEvent.value = IdleText(Float(card.value.n * 100, card.value.d))

\* an IDLE_PERCENTAGE of 35 on the card reads "3500.0%"
C28_Card35 ==
    /\ IdleCardDrawn
    /\ card.value = Float(35, 1)
    /\ LastEvent.value = Text3500

\* an IDLE_PERCENTAGE of 35 in the advisory reads "35.0%"
C28_Advisory35 ==
    /\ IdleAdvisoryGiven
    /\ SummaryRow["IDLE_PERCENTAGE"] = Float(35, 1)
    /\ \E i \in IdleAdvisories : recommendations[i].shown[1] = Text35


----------------------------------------------------------------------------
(* Claims on the columns of a section *)

\* a section is in its loop, about to place the entry cfg_idx, or past it
PlacingMetric == pc = "metric_loop" /\ section_key \in DOMAIN ConfiguredMetrics
PlacingChart == pc = "chart_loop" /\ section_key \in DOMAIN ConfiguredCharts
PlacedConfigs ==
    IF PlacingMetric THEN ConfiguredMetrics[section_key] ELSE ConfiguredCharts[section_key]
\* the entry is one the loop skips with an error box: no query_id, or for a
\* metric no value_col
SkippedEntry(config) ==
    \/ Get(config, "query_id", NoStr) = NoStr
    \/ PlacingMetric /\ Get(config, "value_col", NoStr) = NoStr
\* the entries before the entry cfg_idx that were not skipped
Unskipped ==
    Cardinality({j \in 1..(cfg_idx - 1) : ~SkippedEntry(PlacedConfigs[j])})

\* C29 (as the specification states it): the column index stays in
\* 0..num_columns-1 and the k-th entry of a section, counted from 0, is placed in
\* column k mod num_columns, also after an entry skipped for a missing query_id
\* or value_col
C29_ColumnOfEntry ==
    (PlacingMetric \/ PlacingChart) =>
        /\ col_idx \in 0..(num_columns - 1)
        /\ col_idx = (cfg_idx - 1) % num_columns

\* what the code does: the index stays in range and advances after every entry
\* that is not skipped, so an entry goes to the column numbered by the unskipped
\* entries before it
C29_ColumnCountsUnskipped ==
    (PlacingMetric \/ PlacingChart) =>
        /\ col_idx \in 0..(num_columns - 1)
        /\ col_idx = Unskipped % num_columns

\* the third entry of the draft metrics, after the skipped second, goes to
\* column 1 of 3 and not to column 2
C29_AfterSkippedMetric ==
    /\ PlacingMetric /\ section_key = "DRAFT_METRICS"
    /\ cfg_idx = 3 /\ num_columns = 3
    /\ col_idx = 1

\* the same in the chart section
C29_AfterSkippedChart ==
    /\ PlacingChart /\ section_key = "DRAFT_CHARTS"
    /\ cfg_idx = 3 /\ num_columns = 3
    /\ col_idx = 1

\* without a skipped entry the fourth chart of the overview wraps to column 1 of 2
C29_Wraps ==
    /\ PlacingChart /\ section_key = "OVERVIEW_CHARTS"
    /\ cfg_idx = 4 /\ num_columns = 2
    /\ col_idx = 1


----------------------------------------------------------------------------
(* Claims on the growth of the advisory list *)

InRules == pc \in {"rec_account_idle", "rec_account_cost", "rec_user", "rec_warehouse"}
IsPrefixOf(a, b) == Len(a) <= Len(b) /\ SubSeq(b, 1, Len(a)) = a
EndsWith(a, b) == Len(b) <= Len(a) /\ SubSeq(a, Len(a) - Len(b) + 1, Len(a)) = b
\* the last try block fetched twice and its second fetch failed
SecondFetchFailed(first_id) ==
    /\ Len(fetched) = 2
    /\ fetched[1].query_id = first_id
    /\ ~fetched[1].outcome.err
    /\ fetched[2].outcome.err
\* the user's block, the warehouse's block ended on a failed second fetch
UserBlockCutShort ==
    pc = "rec_warehouse" /\ SecondFetchFailed("USER_360_SUMMARY_METRICS")
WarehouseBlockCutShort ==
    pc = "rec_return" /\ SecondFetchFailed("WAREHOUSE_SUMMARY_METRICS")
\* what the rules before the failed fetch produced
ProducedByUserSummary == UserSummaryRules(selected_entity, fetched[1].outcome.rows).val
ProducedByWarehouseIdle ==
    WarehouseIdleRule(selected_warehouse, fetched[1].outcome.rows[1]["IDLE_PERCENTAGE"],
                      fetched[1].outcome.rows[1]["AUTO_SUSPEND"]).val

\* C30: in generate_finops_recommendations every step of the rules leaves the
\* advisories already in the list where they are and only appends; the
\* advisories a block produced before a fetch of it failed are in the list,
\* as its last ones; and a list that is returned holds the advisories in the
\* order they were appended
C30_ListOnlyGrows ==
    /\ [][InRules => IsPrefixOf(recommendations, recommendations')]_vars
    /\ [](UserBlockCutShort => EndsWith(recommendations, ProducedByUserSummary))
    /\ [](WarehouseBlockCutShort => EndsWith(recommendations, ProducedByWarehouseIdle))
    /\ []((pc = "rec_return" /\ recommendations # <<>>) =>
             ReturnedRecommendations(recommendations) = recommendations)
    /\ []((RecommendationsReturned /\ recommendations # <<>>) =>
             call.out.val = recommendations)

\* the user's summary gave advisories, the fetch of the user's warehouses failed:
\* the advisories are in the list
C30_Witness ==
    /\ UserBlockCutShort
    /\ ProducedByUserSummary # <<>>
    /\ recommendations = ProducedByUserSummary

\* the idle advisory of the warehouse stays when the queue trend cannot be fetched
C30_WitnessWarehouse ==
    /\ WarehouseBlockCutShort
    /\ ProducedByWarehouseIdle # <<>>
    /\ EndsWith(recommendations, ProducedByWarehouseIdle)

\* the account's idle advisories stay when the cost overview cannot be fetched,
\* and they are returned
C30_WitnessAccount ==
    /\ RecommendationsReturned
    /\ selected_entity = NoStr /\ selected_warehouse = NoStr
    /\ AdvisoriesOf(call.out.val, "account_warehouse_idle") # {}
    /\ AdvisoriesOf(call.out.val, "account_cost_increase") = {}
    /\ Len(call.out.val) >= 2

====
